---- MODULE Spec2Model ----
(***************************************************************************)
(* Model of the balance application (src/applications/app_balance.c): the  *)
(* balance thread's loop, its fault detector, setpoint shaper, PID output  *)
(* stage, lock sequence and the start/stop entry points.                   *)
(*                                                                         *)
(* Fixed-point units replace the C floats:                                 *)
(*   time        system ticks of 1 ms (ST2MS is the identity)              *)
(*   angles      centidegrees            currents   milliamps              *)
(*   voltages    decivolts               duty       percent                *)
(*   kp, kd      1/1000                  ki         1/1000000              *)
(* The controller's globals are the fields of the record ctl; the immutable*)
(* configuration is the record conf.  Torque-tilt, turn-tilt and the       *)
(* acceleration ring are inert in the configurations of ConfSet            *)
(* (torquetilt_strength = 0, constant yaw) and carry no state here.        *)
(***************************************************************************)
EXTENDS Integers, Sequences, FiniteSets, TLC

VARIABLES conf, ctl, now, pc, term, obs

vars == <<conf, ctl, now, pc, term, obs>>

\* ---------------------------------------------------------------- bounds
\* Ticks are taken while the system time stays within MaxTime (ms).
MaxTime == 4000

\* ------------------------------------------------------ program constants
STARTUP == 0
RUNNING == 1
RUNNING_TILTBACK_DUTY == 2
RUNNING_TILTBACK_HIGH_VOLTAGE == 3
RUNNING_TILTBACK_LOW_VOLTAGE == 4
FAULT_ANGLE_PITCH == 6
FAULT_ANGLE_ROLL == 7
FAULT_SWITCH_HALF == 8
FAULT_SWITCH_FULL == 9
FAULT_DUTY == 10
FAULT_STARTUP == 11
FAULT_REVERSE == 12

CENTERING == 0
REVERSESTOP == 1
TILTBACK_NONE == 2
TILTBACK_DUTY == 3
TILTBACK_HV == 4
TILTBACK_LV == 5

OFF == 0
HALF == 1
ON == 2

START_GRACE_PERIOD_MS == 100
ACCEL_ARRAY_SIZE == 40
START_CENTER_DELAY_MS == 1000

RunningStates ==
  {RUNNING, RUNNING_TILTBACK_DUTY, RUNNING_TILTBACK_HIGH_VOLTAGE,
   RUNNING_TILTBACK_LOW_VOLTAGE}

LatchedFaultStates ==
  {FAULT_ANGLE_PITCH, FAULT_ANGLE_ROLL, FAULT_SWITCH_HALF, FAULT_SWITCH_FULL,
   FAULT_STARTUP, FAULT_REVERSE}

FaultStates == LatchedFaultStates \cup {FAULT_DUTY}

\* ---------------------------------------------------------------- helpers
Deg(x) == x * 100
Amp(x) == x * 1000
Volt(x) == x * 10

fabsf(x) == IF x < 0 THEN -x ELSE x
fminf(a, b) == IF a < b THEN a ELSE b
fmaxf(a, b) == IF a > b THEN a ELSE b
SIGN(x) == IF x < 0 THEN -1 ELSE 1

\* Division of the fixed-point values, rounding toward zero.
Quot(a, b) == IF a >= 0 THEN a \div b ELSE -((-a) \div b)

\* f applied to the value of x, which is computed once.
Then(x, f(_)) == CHOOSE r \in { f(v) : v \in {x} } : TRUE

ST2MS(t) == t
S2ST(s) == s * 1000

\* ---------------------------------------------------------- configuration
\* balance_conf and the fields of the motor and app configuration the
\* application reads. startup_speed10 is startup_speed in tenths (its
\* fractional digit carries the start flags), brake_current100 is
\* brake_current in hundredths (its fraction carries the click current).
BaseConf ==
  [ hertz |-> 2,
    startup_speed10 |-> 81,
    startup_pitch_tolerance |-> Deg(10),
    startup_roll_tolerance |-> Deg(45),
    tiltback_duty_speed |-> 4,
    tiltback_hv_speed |-> 4,
    tiltback_lv_speed |-> 4,
    tiltback_return_speed |-> 2,
    tiltback_duty |-> 80,
    tiltback_duty_angle |-> Deg(6),
    tiltback_hv |-> Volt(60),
    tiltback_hv_angle |-> Deg(6),
    tiltback_lv |-> Volt(40),
    tiltback_lv_angle |-> Deg(6),
    tiltback_variable1000 |-> 0,
    tiltback_variable_max |-> 0,
    tiltback_constant |-> 0,
    tiltback_constant_erpm |-> 500,
    noseangling_speed |-> 2,
    fault_pitch |-> Deg(20),
    fault_roll |-> Deg(45),
    fault_duty |-> 90,
    fault_adc1 |-> 20,
    fault_adc2 |-> 20,
    fault_adc_half_erpm |-> 300,
    fault_delay_pitch |-> 600,
    fault_delay_roll |-> 600,
    fault_delay_duty |-> 600,
    fault_delay_switch_half |-> 600,
    fault_delay_switch_full |-> 1200,
    kp |-> 6000,
    ki |-> 5000,
    kd |-> 800000,
    kd_pt1_lowpass_frequency |-> 10,
    booster_angle |-> Deg(1),
    booster_ramp1000 |-> 3500,
    booster_current1000 |-> 1000,
    roll_steer_kp100 |-> 2030,
    roll_steer_erpm_kp |-> 0,
    yaw_current_clamp |-> 0,
    torquetilt_strength |-> 0,
    brake_current100 |-> 610,
    brake_timeout |-> 0,
    deadzone |-> 0,
    shutdown_timeout |-> 0,
    multi_esc |-> FALSE,
    l_current_max |-> Amp(60),
    l_current_min |-> Amp(-60),
    l_temp_fet_start |-> 850,
    nrf_channel |-> 0,
    motor_default |-> FALSE,
    m_invert_direction |-> FALSE,
    torquetilt_angle_limit |-> Deg(8),
    turntilt_speed |-> 2 ]

\* The configurations explored: the base one, one with the start-up tune and
\* a brake timeout, one that starts locked with quick start, one without high
\* speed switch faults and with narrow current limits.
ConfSet ==
  { BaseConf,
    [BaseConf EXCEPT !.deadzone = 2, !.brake_timeout = 1,
                     !.l_current_max = Amp(5), !.l_current_min = Amp(-5)],
    [BaseConf EXCEPT !.l_current_max = Amp(2), !.l_current_min = Amp(0)],
    [BaseConf EXCEPT !.multi_esc = TRUE, !.deadzone = 1],
    [BaseConf EXCEPT !.brake_timeout = 1, !.motor_default = TRUE] }

\* Values app_balance_configure derives from the configuration.
loop_time(c) == 1000 \div c.hertz
startup_step_size(c) == (c.startup_speed10 * 10) \div c.hertz
tiltback_duty_step_size(c) == Deg(c.tiltback_duty_speed) \div c.hertz
tiltback_hv_step_size(c) == Deg(c.tiltback_hv_speed) \div c.hertz
tiltback_lv_step_size(c) == Deg(c.tiltback_lv_speed) \div c.hertz
tiltback_return_step_size(c) == Deg(c.tiltback_return_speed) \div c.hertz
noseangling_step_size(c) == Deg(c.noseangling_speed) \div c.hertz
turntilt_step_size(c) == Deg(c.turntilt_speed) \div c.hertz
reverse_stop_step_size(c) == Deg(100) \div c.hertz
reverse_tolerance == 50000

\* startup_speed is a single-precision float. A float of integer part n keeps
\* 23 - floor(log2 n) fraction bits; float_fraction_steps(n) is the number of
\* representable steps in one unit at that magnitude. (Below 1 the float is
\* finer still; 2^23 steps already place the fraction within 2^-24 of its
\* decimal value, far inside the 0.01 margins of the tests below.)
RECURSIVE float_fraction_steps(_)
float_fraction_steps(n) ==
  IF n < 2 THEN 8388608 ELSE float_fraction_steps(n \div 2) \div 2

\* a / b rounded to the nearest integer, ties to even (a >= 0, b > 0).
RoundNearestEven(a, b) ==
  LET q == a \div b
      r == a % b
  IN IF 2 * r > b \/ (2 * r = b /\ q % 2 = 1) THEN q + 1 ELSE q

\* ss = (int)startup_speed truncates toward zero; ss_rest = startup_speed - ss
\* is the fraction as the float holds it, here the rational num / den.
ss(c) == Quot(c.startup_speed10, 10)
ss_rest(c) ==
  Then(fabsf(c.startup_speed10), LAMBDA a :
  Then(float_fraction_steps(a \div 10), LAMBDA den :
  Then(RoundNearestEven((a % 10) * den, 10), LAMBDA num :
  [num |-> IF c.startup_speed10 < 0 THEN -num ELSE num, den |-> den])))

\* (r > lo / 100) && (r < hi / 100) for the fraction r.
ss_rest_within(r, lo, hi) ==
  100 * r.num > lo * r.den /\ 100 * r.num < hi * r.den

use_reverse_stop_on_one_only(c) ==
  Then(ss_rest(c), LAMBDA r : ss_rest_within(r, 9, 11))

use_reverse_stop(c) ==
  Then(ss_rest(c), LAMBDA r :
    ss_rest_within(r, 9, 11) \/ ss_rest_within(r, 29, 31))
start_counter_clicks_max(c) ==
  Then(ss_rest(c), LAMBDA r :
    IF ss_rest_within(r, 19, 21) \/ ss_rest_within(r, 29, 31) THEN 0 ELSE 2)
use_soft_start(c) == c.startup_speed10 < 100
click_current(c) == Amp(fminf(c.brake_current100 % 100, 30))
brake_current(c) == c.brake_current100 * 10
allow_high_speed_full_switch_faults(c) == c.fault_delay_switch_full % 10 # 1
kp_acc(c) == fminf(c.kp, 10000)
ki_acc(c) == fminf(c.ki, 10000)
kd_acc(c) == fminf(c.kd, 1500000)
mc_current_max(c) == c.l_current_max
mc_current_min(c) == c.l_current_min
mc_max_temp_fet(c) == c.l_temp_fet_start - 20
erpm_sign(c) == IF c.m_invert_direction THEN -1 ELSE 1

\* The terminal command callbacks of the application; terminal_callbacks is
\* the set of them the terminal holds.
AppCallbacks == {"terminal_render", "terminal_sample", "terminal_experiment"}

terminal_register_command_callback(g, cbf) ==
  [g EXCEPT !.terminal_callbacks = @ \cup {cbf}]

terminal_unregister_callback(g, cbf) ==
  [g EXCEPT !.terminal_callbacks = @ \ {cbf}]

\* ------------------------------------------------------- controller state
\* The globals of app_balance.c after app_balance_configure and
\* app_balance_start: statics are zero, state is STARTUP, the lock flag is
\* the stored one. motor_out lists the motor commands of the current loop
\* iteration, slept the blocking sleeps (ms) taken inside it, flash_lock the
\* lock flag last stored by commands_balance_lock.
InitG(c) ==
  [ state |-> STARTUP,
    setpointAdjustmentType |-> CENTERING,
    switch_state |-> OFF,
    current_time |-> 0,
    pitch_angle |-> 0, last_pitch_angle |-> 0, roll_angle |-> 0,
    abs_duty_cycle |-> 0, erpm |-> 0, abs_erpm |-> 0, adc1 |-> 0, adc2 |-> 0,
    fault_switch_timer |-> 0, fault_switch_half_timer |-> 0,
    fault_angle_pitch_timer |-> 0, fault_angle_roll_timer |-> 0,
    fault_duty_timer |-> 0, tb_highvoltage_timer |-> 0,
    reverse_timer |-> 0, softstart_timer |-> 0, lock_timer |-> 0,
    brake_timeout |-> 0,
    inactivity_timer |-> -1, inactivity_timeout |-> c.shutdown_timeout,
    reverse_total_erpm |-> 0,
    setpoint |-> 0, setpoint_target |-> 0, setpoint_target_interpolated |-> 0,
    noseangling_interpolated |-> 0, torquetilt_interpolated |-> 0,
    accel_gap |-> 0, torquetilt_target |-> 0,
    turntilt_target |-> 0, turntilt_interpolated |-> 0, cutback |-> FALSE,
    proportional |-> 0, integral |-> 0, derivative |-> 0, pid_value |-> 0,
    kp |-> 0, ki |-> 0, kd |-> 0, d_pt1_lowpass_state |-> 0,
    start_counter_clicks |-> 0, center_stiffness_delay_ms |-> 0,
    center_jerk_counter |-> 0, center_jerk_adder |-> 0,
    current_limiting |-> FALSE,
    lock_state |-> -1, is_locked |-> c.multi_esc, flash_lock |-> c.multi_esc,
    buzzer |-> FALSE,
    debug_sample_field |-> 0, debug_sample_count |-> 0,
    debug_sample_index |-> 0,
    last_erpm |-> 0, accelhist |-> [i \in 1..ACCEL_ARRAY_SIZE |-> 0],
    accelidx |-> 0, accelavg |-> 0,
    motor_out |-> <<>>, slept |-> 0,
    terminal_callbacks |-> AppCallbacks ]

\* ------------------------------------------------------------ side channels
beep_on(g) == [g EXCEPT !.buzzer = TRUE]
beep_off(g) == [g EXCEPT !.buzzer = FALSE]
chThdSleepMilliseconds(g, ms) == [g EXCEPT !.slept = @ + ms]

BrakeCmd(mA) == [cmd |-> "brake", mA |-> mA]
CurrentCmd(mA) == [cmd |-> "current", mA |-> mA]

mc_interface_set_current(g, mA) ==
  [g EXCEPT !.motor_out = Append(@, CurrentCmd(mA))]

set_current(g, mA) == mc_interface_set_current(g, mA)


\* A brake that is issued as a drive-current command.
mc_interface_set_brake_current_as_drive(g, mA) ==
  [g EXCEPT !.motor_out = Append(@, CurrentCmd(mA))]

mc_interface_set_brake_current(g, mA) ==
  [g EXCEPT !.motor_out = Append(@, BrakeCmd(mA))]

brake(g, c) ==
  LET bt == IF c.brake_timeout > 0 /\ (g.abs_erpm > 1 \/ g.brake_timeout = 0)
            THEN g.current_time + S2ST(c.brake_timeout)
            ELSE g.brake_timeout
      g1 == [g EXCEPT !.brake_timeout = bt]
  IN IF bt # 0 /\ g.current_time > bt
     THEN g1
     ELSE mc_interface_set_brake_current(g1, brake_current(c))

\* One back-and-forth wiggle of the motor: 1 A for 50 ms, 0 A for 10 ms.
tune_step(g, curr) ==
  chThdSleepMilliseconds(
    mc_interface_set_current(
      chThdSleepMilliseconds(mc_interface_set_current(g, curr), 50), 0), 10)

play_tune(g, doChangeFreqs) ==
  LET g2 == tune_step(tune_step(g, Amp(1)), Amp(-1))
  IN IF doChangeFreqs THEN tune_step(tune_step(g2, Amp(1)), Amp(-1)) ELSE g2

\* --------------------------------------------------------------- reset_vars
reset_vars(g, c) ==
  [g EXCEPT
    !.integral = 0,
    !.d_pt1_lowpass_state = 0,
    !.setpoint = g.pitch_angle,
    !.setpoint_target = 0,
    !.noseangling_interpolated = 0,
    !.torquetilt_interpolated = 0,
    !.turntilt_target = 0,
    !.turntilt_interpolated = 0,
    !.cutback = FALSE,
    !.setpointAdjustmentType = CENTERING,
    !.state = RUNNING,
    !.current_time = 0,
    !.brake_timeout = 0,
    !.current_limiting = FALSE,
    !.pid_value = 0,
    !.setpoint_target_interpolated = Quot(g.pitch_angle, 2),
    !.kp = IF use_soft_start(c) THEN 1000 ELSE (kp_acc(c) * 8) \div 10,
    !.ki = IF use_soft_start(c) THEN 0 ELSE ki_acc(c),
    !.kd = 0,
    !.start_counter_clicks = start_counter_clicks_max(c),
    !.center_stiffness_delay_ms = START_CENTER_DELAY_MS,
    !.center_jerk_counter = 0,
    !.center_jerk_adder = 0,
    !.accelhist = [i \in 1..ACCEL_ARRAY_SIZE |-> 0],
    !.accelidx = 0,
    !.accelavg = 0,
    !.accel_gap = 0]

\* A step size that is the return step in every mode.
get_setpoint_adjustment_step_size_of_return(g, c) ==
  tiltback_return_step_size(c)

get_setpoint_adjustment_step_size(g, c) ==
  CASE g.setpointAdjustmentType = CENTERING -> startup_step_size(c)
    [] g.setpointAdjustmentType = TILTBACK_DUTY -> tiltback_duty_step_size(c)
    [] g.setpointAdjustmentType = TILTBACK_HV -> tiltback_hv_step_size(c)
    [] g.setpointAdjustmentType = TILTBACK_LV -> tiltback_lv_step_size(c)
    [] g.setpointAdjustmentType = TILTBACK_NONE -> tiltback_return_step_size(c)
    [] g.setpointAdjustmentType = REVERSESTOP -> reverse_stop_step_size(c)
    [] OTHER -> 0

\* A switch state that treats every configuration as a double switch.
sw_state_double(c, a1, a2) ==
  IF a1 > c.fault_adc1 /\ a2 > c.fault_adc2 THEN ON
  ELSE IF a1 > c.fault_adc1 \/ a2 > c.fault_adc2 THEN HALF
  ELSE OFF

\* --------------------------------------------------------------- check_adcs
sw_state(c, a1, a2) ==
  IF c.fault_adc1 = 0 /\ c.fault_adc2 = 0 THEN ON
  ELSE IF c.fault_adc2 = 0 THEN (IF a1 > c.fault_adc1 THEN ON ELSE OFF)
  ELSE IF c.fault_adc1 = 0 THEN (IF a2 > c.fault_adc2 THEN ON ELSE OFF)
  ELSE IF a1 > c.fault_adc1 /\ a2 > c.fault_adc2 THEN ON
  ELSE IF a1 > c.fault_adc1 \/ a2 > c.fault_adc2 THEN HALF
  ELSE OFF

check_adcs(g, c, in) ==
  LET sw == sw_state(c, in.adc1, in.adc2)
      g1 == [g EXCEPT !.adc1 = in.adc1, !.adc2 = in.adc2, !.switch_state = sw]
  IN IF sw = OFF /\ g.abs_erpm > c.fault_adc_half_erpm
        /\ g.state >= RUNNING /\ g.state <= RUNNING_TILTBACK_LOW_VOLTAGE
     THEN beep_on(g1)
     ELSE beep_off(g1)

\* ------------------------------------------------------------- check_faults
\* Each stage returns the globals and whether check_faults returned true.
Raise(g, st) == [g |-> [g EXCEPT !.state = st], fault |-> TRUE]
Pass(g) == [g |-> g, fault |-> FALSE]

faults_switch_full(g, c, ignoreTimers) ==
  IF g.switch_state = OFF
  THEN IF ST2MS(g.current_time - g.fault_switch_timer) > c.fault_delay_switch_full
          \/ ignoreTimers
       THEN Raise(g, FAULT_SWITCH_FULL)
       ELSE IF g.abs_erpm < c.fault_adc_half_erpm * 4
               /\ ST2MS(g.current_time - g.fault_switch_timer)
                    > c.fault_delay_switch_half
       THEN Raise(g, FAULT_SWITCH_FULL)
       ELSE IF g.abs_erpm < c.fault_adc_half_erpm /\ fabsf(g.pitch_angle) > Deg(15)
       THEN Raise(g, FAULT_SWITCH_FULL)
       ELSE IF g.abs_erpm > 3000 /\ ~allow_high_speed_full_switch_faults(c)
       THEN Pass([g EXCEPT !.fault_switch_timer = g.current_time])
       ELSE Pass(g)
  ELSE Pass([g EXCEPT !.fault_switch_timer = g.current_time])

faults_reverse_stop(g, c) ==
  IF g.setpointAdjustmentType # REVERSESTOP THEN Pass(g)
  ELSE IF g.switch_state = OFF THEN Raise(g, FAULT_SWITCH_FULL)
  ELSE IF fabsf(g.pitch_angle) > Deg(15) THEN Raise(g, FAULT_REVERSE)
  ELSE IF fabsf(g.pitch_angle) > Deg(10)
          /\ ST2MS(g.current_time - g.reverse_timer) > 500
  THEN Raise(g, FAULT_REVERSE)
  ELSE IF fabsf(g.pitch_angle) > Deg(5)
          /\ ST2MS(g.current_time - g.reverse_timer) > 1000
  THEN Raise(g, FAULT_REVERSE)
  ELSE IF g.reverse_total_erpm > reverse_tolerance * 3
  THEN Raise(g, FAULT_REVERSE)
  ELSE IF fabsf(g.pitch_angle) < Deg(5)
  THEN Pass([g EXCEPT !.reverse_timer = g.current_time])
  ELSE Pass(g)

faults_switch_half(g, c, ignoreTimers) ==
  IF (g.switch_state = HALF \/ g.switch_state = OFF)
     /\ g.abs_erpm < c.fault_adc_half_erpm
  THEN IF ST2MS(g.current_time - g.fault_switch_half_timer)
            > c.fault_delay_switch_half \/ ignoreTimers
       THEN Raise(g, FAULT_SWITCH_HALF)
       ELSE Pass(g)
  ELSE Pass([g EXCEPT !.fault_switch_half_timer = g.current_time])

faults_pitch(g, c, ignoreTimers) ==
  IF fabsf(g.pitch_angle) > c.fault_pitch
  THEN IF ST2MS(g.current_time - g.fault_angle_pitch_timer) > c.fault_delay_pitch
          \/ ignoreTimers
       THEN Raise(g, FAULT_ANGLE_PITCH)
       ELSE Pass(g)
  ELSE Pass([g EXCEPT !.fault_angle_pitch_timer = g.current_time])

faults_roll(g, c, ignoreTimers) ==
  IF fabsf(g.roll_angle) > c.fault_roll
  THEN IF ST2MS(g.current_time - g.fault_angle_roll_timer) > c.fault_delay_roll
          \/ ignoreTimers
       THEN Raise(g, FAULT_ANGLE_ROLL)
       ELSE Pass(g)
  ELSE Pass([g EXCEPT !.fault_angle_roll_timer = g.current_time])

faults_duty(g, c, ignoreTimers) ==
  IF g.abs_duty_cycle > c.fault_duty
  THEN IF ST2MS(g.current_time - g.fault_duty_timer) > c.fault_delay_duty
          \/ ignoreTimers
       THEN Raise(g, FAULT_DUTY)
       ELSE Pass(g)
  ELSE Pass([g EXCEPT !.fault_duty_timer = g.current_time])

\* check_faults with the roll and duty checks exchanged.
check_faults_duty_before_roll(g, c, ignoreTimers) ==
  Then(faults_switch_full(g, c, ignoreTimers), LAMBDA r1 :
  IF r1.fault THEN r1 ELSE
  Then(faults_reverse_stop(r1.g, c), LAMBDA r2 :
  IF r2.fault THEN r2 ELSE
  Then(faults_switch_half(r2.g, c, ignoreTimers), LAMBDA r3 :
  IF r3.fault THEN r3 ELSE
  Then(faults_pitch(r3.g, c, ignoreTimers), LAMBDA r4 :
  IF r4.fault THEN r4 ELSE
  Then(faults_duty(r4.g, c, ignoreTimers), LAMBDA r5 :
  IF r5.fault THEN r5 ELSE
  faults_roll(r5.g, c, ignoreTimers))))))

check_faults(g, c, ignoreTimers) ==
  Then(faults_switch_full(g, c, ignoreTimers), LAMBDA r1 :
  IF r1.fault THEN r1 ELSE
  Then(faults_reverse_stop(r1.g, c), LAMBDA r2 :
  IF r2.fault THEN r2 ELSE
  Then(faults_switch_half(r2.g, c, ignoreTimers), LAMBDA r3 :
  IF r3.fault THEN r3 ELSE
  Then(faults_pitch(r3.g, c, ignoreTimers), LAMBDA r4 :
  IF r4.fault THEN r4 ELSE
  Then(faults_roll(r4.g, c, ignoreTimers), LAMBDA r5 :
  IF r5.fault THEN r5 ELSE
  faults_duty(r5.g, c, ignoreTimers))))))

\* --------------------------------------------------------------- check_lock
lock_step(g, c) ==
  LET a1 == g.adc1 > c.fault_adc1
      a2 == g.adc2 > c.fault_adc2
      sw == g.switch_state
      ls == g.lock_state
  IN CASE ls = -1 -> IF sw = ON THEN 0 ELSE ls
       [] ls = 0 -> IF sw = OFF THEN 1 ELSE ls
       [] ls \in {1, 5} -> IF a2 THEN -1 ELSE IF a1 THEN ls + 1 ELSE ls
       [] ls \in {2, 6} -> IF a2 \/ sw = ON THEN -1
                           ELSE IF sw = OFF THEN ls + 1 ELSE ls
       [] ls \in {3, 7} -> IF a1 THEN -1 ELSE IF a2 THEN ls + 1 ELSE ls
       [] ls = 4 -> IF a1 \/ sw = ON THEN -1
                    ELSE IF sw = OFF THEN 5 ELSE ls
       [] ls = 8 -> -1
       [] OTHER -> ls

\* A lock check that stores the flag after every completion.
check_lock_always_storing(g, c) ==
  IF ST2MS(g.current_time - g.lock_timer) < 50 THEN g
  ELSE
    LET nl == lock_step(g, c)
        toggled == g.lock_state = 8
        locked == IF toggled THEN ~g.is_locked ELSE g.is_locked
    IN [g EXCEPT
         !.lock_state = nl,
         !.is_locked = locked,
         !.flash_lock = IF toggled THEN locked ELSE @,
         !.lock_timer = IF nl # g.lock_state THEN g.current_time ELSE @]

\* A lock check without the 50 ms between steps.
check_lock_without_delay(g, c) ==
  LET nl == lock_step(g, c)
      toggled == g.lock_state = 8
      locked == IF toggled THEN ~g.is_locked ELSE g.is_locked
      store == toggled /\ (~locked \/ c.nrf_channel = 99)
  IN [g EXCEPT
       !.lock_state = nl,
       !.is_locked = locked,
       !.flash_lock = IF store THEN locked ELSE @,
       !.lock_timer = IF nl # g.lock_state THEN g.current_time ELSE @]

check_lock(g, c) ==
  IF ST2MS(g.current_time - g.lock_timer) < 50 THEN g
  ELSE
    LET nl == lock_step(g, c)
        toggled == g.lock_state = 8
        locked == IF toggled THEN ~g.is_locked ELSE g.is_locked
        store == toggled /\ (~locked \/ c.nrf_channel = 99)
    IN [g EXCEPT
         !.lock_state = nl,
         !.is_locked = locked,
         !.flash_lock = IF store THEN locked ELSE @,
         !.lock_timer = IF nl # g.lock_state THEN g.current_time ELSE @]

\* -------------------------------------------------------- PID tone values
BOOST_THRESHOLD == 8
BOOST_THRESHOLD2 == 14
BOOST_INTENSITY1000 == 500

center_boost_angle(c) ==
  IF c.booster_angle > Deg(3) THEN Deg(1) ELSE c.booster_angle

center_boost_kp_adder(c) ==
  LET raw == Quot(c.booster_ramp1000 * kp_acc(c), 3500) - kp_acc(c)
  IN fminf(IF raw < 0 THEN 1000 ELSE raw, 7000)

tt_pid_intensity(c) == fmaxf(fminf(c.booster_current1000, 1500), 0)

max_brake_amps(c) ==
  IF c.roll_steer_kp100 * 10 < Amp(10)
  THEN c.l_current_max \div 2
  ELSE c.roll_steer_kp100 * 10

max_derivative(c) ==
  LET md == 100 * (max_brake_amps(c) % 1000)
  IN IF md < Amp(10) THEN c.l_current_max \div 2 ELSE md

center_jerk_duration_ms(c) ==
  IF c.roll_steer_erpm_kp > 100 THEN 0 ELSE c.roll_steer_erpm_kp

center_jerk_strength(c) ==
  IF c.yaw_current_clamp > 50 \/ c.yaw_current_clamp < -50
  THEN 0 ELSE Amp(c.yaw_current_clamp)

\* k = dT / (RC + dT) = 2 pi f / (hertz + 2 pi f), in 1/1000.
d_pt1_lowpass_k(c) ==
  LET f0 == IF c.kd_pt1_lowpass_frequency >= 1
            THEN c.kd_pt1_lowpass_frequency ELSE 10
      f == IF f0 > 30 THEN 10 ELSE f0
  IN (1000 * 62832 * f) \div (10000 * c.hertz + 62832 * f)

\* ------------------------------------------------- calculate_setpoint_target
TiltTo(g, angle) ==
  [g EXCEPT !.setpoint_target = IF g.erpm > 0 THEN angle ELSE -angle]

setpoint_target_centering(g, c) ==
  IF g.setpoint_target_interpolated # g.setpoint_target
  THEN [g EXCEPT !.state = RUNNING, !.softstart_timer = g.current_time]
  ELSE IF ST2MS(g.current_time - g.softstart_timer) > START_GRACE_PERIOD_MS
  THEN [g EXCEPT !.setpointAdjustmentType = TILTBACK_NONE]
  ELSE IF ~use_soft_start(c)
  THEN [g EXCEPT !.setpointAdjustmentType = TILTBACK_NONE]
  ELSE g

\* A ReverseStop branch that leaves the integral alone when it ends the mode.
setpoint_target_reversestop_keeping_integral(g, c) ==
  LET total == g.reverse_total_erpm + g.erpm
      g1 == [g EXCEPT !.reverse_total_erpm = total]
  IN IF fabsf(total) > reverse_tolerance
     THEN [g1 EXCEPT !.setpoint_target =
             Quot(Deg(10) * (fabsf(total) - reverse_tolerance), 50000)]
     ELSE IF fabsf(total) * 2 <= reverse_tolerance /\ g.erpm >= 0
     THEN [g1 EXCEPT !.setpointAdjustmentType = TILTBACK_NONE,
                     !.reverse_total_erpm = 0,
                     !.setpoint_target = 0]
     ELSE g1

setpoint_target_reversestop(g, c) ==
  LET total == g.reverse_total_erpm + g.erpm
      g1 == [g EXCEPT !.reverse_total_erpm = total]
  IN IF fabsf(total) > reverse_tolerance
     THEN [g1 EXCEPT !.setpoint_target =
             Quot(Deg(10) * (fabsf(total) - reverse_tolerance), 50000)]
     ELSE IF fabsf(total) * 2 <= reverse_tolerance /\ g.erpm >= 0
     THEN [g1 EXCEPT !.setpointAdjustmentType = TILTBACK_NONE,
                     !.reverse_total_erpm = 0,
                     !.setpoint_target = 0,
                     !.integral = 0]
     ELSE g1

setpoint_target_tiltback(g, c, in) ==
  IF g.abs_duty_cycle > c.tiltback_duty
  THEN [TiltTo(g, c.tiltback_duty_angle) EXCEPT
          !.setpointAdjustmentType = TILTBACK_DUTY,
          !.state = RUNNING_TILTBACK_DUTY]
  ELSE IF in.v_in > c.tiltback_hv
  THEN IF ST2MS(g.current_time - g.fault_switch_timer) > 500
          \/ in.v_in > c.tiltback_hv + Volt(1)
       THEN [TiltTo(g, c.tiltback_hv_angle) EXCEPT
               !.setpointAdjustmentType = TILTBACK_HV,
               !.state = RUNNING_TILTBACK_HIGH_VOLTAGE]
       ELSE [g EXCEPT !.setpointAdjustmentType = TILTBACK_NONE,
                      !.state = RUNNING]
  ELSE IF in.v_in < c.tiltback_lv
  THEN [TiltTo(g, c.tiltback_lv_angle) EXCEPT
          !.setpointAdjustmentType = TILTBACK_LV,
          !.state = RUNNING_TILTBACK_LOW_VOLTAGE]
  ELSE IF in.temp_fet > mc_max_temp_fet(c)
  THEN IF in.temp_fet > mc_max_temp_fet(c) + 10
       THEN [TiltTo(g, c.tiltback_lv_angle) EXCEPT
               !.setpointAdjustmentType = TILTBACK_HV,
               !.state = RUNNING_TILTBACK_LOW_VOLTAGE]
       ELSE [g EXCEPT !.setpointAdjustmentType = TILTBACK_NONE,
                      !.state = RUNNING]
  ELSE IF use_reverse_stop(c) /\ g.erpm < 0
  THEN [g EXCEPT !.setpointAdjustmentType = REVERSESTOP,
                 !.reverse_timer = g.current_time,
                 !.reverse_total_erpm = 0,
                 !.setpoint_target = 0,
                 !.state = RUNNING]
  ELSE [g EXCEPT !.setpointAdjustmentType = TILTBACK_NONE,
                 !.setpoint_target = 0,
                 !.state = RUNNING]

\* A target calculation that enters ReverseStop from the tiltback branches too.
calculate_setpoint_target_reversing_from_tiltback(g, c, in) ==
  IF g.setpointAdjustmentType = CENTERING
  THEN setpoint_target_centering(g, c)
  ELSE IF g.setpointAdjustmentType = REVERSESTOP
  THEN setpoint_target_reversestop(g, c)
  ELSE Then(setpoint_target_tiltback(g, c, in), LAMBDA r :
         IF use_reverse_stop(c) /\ g.erpm < 0
         THEN [r EXCEPT !.setpointAdjustmentType = REVERSESTOP,
                        !.reverse_timer = g.current_time,
                        !.reverse_total_erpm = 0]
         ELSE r)

\* A target calculation that leaves the state as it found it.
calculate_setpoint_target_keeping_state(g, c, in) ==
  IF g.setpointAdjustmentType = CENTERING
  THEN setpoint_target_centering(g, c)
  ELSE IF g.setpointAdjustmentType = REVERSESTOP
  THEN setpoint_target_reversestop(g, c)
  ELSE Then(setpoint_target_tiltback(g, c, in), LAMBDA r :
         [r EXCEPT !.state = g.state])

\* A target calculation that looks at the duty cycle before the mode.
calculate_setpoint_target_duty_first(g, c, in) ==
  IF g.abs_duty_cycle > c.tiltback_duty
  THEN setpoint_target_tiltback(g, c, in)
  ELSE IF g.setpointAdjustmentType = CENTERING
  THEN setpoint_target_centering(g, c)
  ELSE IF g.setpointAdjustmentType = REVERSESTOP
  THEN setpoint_target_reversestop(g, c)
  ELSE setpoint_target_tiltback(g, c, in)

calculate_setpoint_target(g, c, in) ==
  LET g1 == IF in.v_in < c.tiltback_hv
            THEN [g EXCEPT !.tb_highvoltage_timer = g.current_time]
            ELSE g
  IN IF g1.setpointAdjustmentType = CENTERING
     THEN setpoint_target_centering(g1, c)
     ELSE IF g1.setpointAdjustmentType = REVERSESTOP
     THEN setpoint_target_reversestop(g1, c)
     ELSE setpoint_target_tiltback(g1, c, in)

\* The rate limiter shared by the interpolated values.
Approach(cur, target, step) ==
  IF fabsf(target - cur) < step THEN target
  ELSE IF target - cur > 0 THEN cur + step
  ELSE cur - step


\* An interpolation that jumps to the target.
calculate_setpoint_interpolated_jump(g, c) ==
  [g EXCEPT !.setpoint_target_interpolated = g.setpoint_target]

calculate_setpoint_interpolated(g, c) ==
  IF g.setpoint_target_interpolated # g.setpoint_target
  THEN [g EXCEPT !.setpoint_target_interpolated =
          Approach(@, g.setpoint_target, get_setpoint_adjustment_step_size(g, c))]
  ELSE g

\* ------------------------------------------------------------ nose angling
tiltback_variable_max_erpm(c) ==
  IF c.tiltback_variable1000 > 0
  THEN fabsf(Quot(c.tiltback_variable_max * 1000, c.tiltback_variable1000))
  ELSE 100000

noseangling_target(g, c) ==
  LET var == IF g.erpm > 0 /\ g.torquetilt_interpolated < Deg(-1) THEN 0
             ELSE IF g.erpm < 0 /\ g.torquetilt_interpolated > Deg(1) THEN 0
             ELSE IF fabsf(g.erpm) > tiltback_variable_max_erpm(c)
             THEN fabsf(c.tiltback_variable_max) * SIGN(g.erpm)
             ELSE Quot(c.tiltback_variable1000 * g.erpm, 1000)
      const == IF g.erpm > c.tiltback_constant_erpm THEN c.tiltback_constant
               ELSE IF g.erpm < -c.tiltback_constant_erpm
               THEN -c.tiltback_constant
               ELSE 0
  IN var + const

apply_noseangling(g, c) ==
  LET ni == Approach(g.noseangling_interpolated, noseangling_target(g, c),
                     noseangling_step_size(c))
  IN [g EXCEPT !.noseangling_interpolated = ni, !.setpoint = @ + ni]

\* --------------------------------------------------------------------- PID
\* proportional, integral and the PT1-filtered derivative.
pid_terms(g, c) ==
  LET prop == g.setpoint - g.pitch_angle
      \* integral_tt_impact is 1 in ConfSet (kd_biquad_lowpass/highpass = 0)
      integ == g.integral + prop - g.torquetilt_interpolated
      raw == g.last_pitch_angle - g.pitch_angle
      dstate == g.d_pt1_lowpass_state
                  + Quot(d_pt1_lowpass_k(c) * (raw - g.d_pt1_lowpass_state), 1000)
  IN [g EXCEPT !.proportional = prop, !.integral = integ,
               !.d_pt1_lowpass_state = dstate, !.derivative = dstate]

torque_stiffness(g, c) ==
  Quot(Quot(fabsf(g.torquetilt_interpolated) * 10, 6) * tt_pid_intensity(c), 1000)

p_multiplier(g, c) ==
  IF fabsf(g.torquetilt_interpolated) > Deg(2)
  THEN fminf(1000 + torque_stiffness(g, c), 2000) ELSE 1000

di_multiplier(g, c) ==
  IF fabsf(g.torquetilt_interpolated) > Deg(2)
  THEN fminf(1000 + torque_stiffness(g, c) \div 2, 1700) ELSE 1000

Ema(old, target, num, den) == Quot(old * (den - num) + target * num, den)


\* Gains that add their targets up instead of smoothing toward them.
pid_gains_accumulating(g, c) ==
  [g EXCEPT !.kp = @ + kp_acc(c), !.ki = @ + ki_acc(c), !.kd = @ + kd_acc(c)]

pid_gains(g, c) ==
  LET kp_target == Quot(kp_acc(c) * p_multiplier(g, c), 1000)
      ki_target == Quot(ki_acc(c) * di_multiplier(g, c), 1000)
      kd_target == IF fabsf(g.proportional) > center_boost_angle(c) + 50
                   THEN Quot(kd_acc(c) * di_multiplier(g, c), 1700)
                   ELSE kd_acc(c)
  IN IF g.setpointAdjustmentType >= TILTBACK_NONE
     THEN IF kp_target > g.kp
          THEN [g EXCEPT !.kp = Ema(@, kp_target, 2, 100),
                         !.ki = Ema(@, ki_target, 2, 100),
                         !.kd = Ema(@, kd_target, 2, 100)]
          ELSE [g EXCEPT !.kp = Ema(@, kp_target, 2, 1000),
                         !.ki = Ema(@, ki_target, 2, 1000),
                         !.kd = Ema(@, kd_target, 2, 100)]
     ELSE IF g.setpointAdjustmentType = CENTERING
     THEN [g EXCEPT !.kp = Ema(@, kp_target, 5, 1000),
                    !.ki = Ema(@, ki_target, 5, 1000),
                    !.kd = Ema(@, kd_target, 5, 1000)]
     ELSE [g EXCEPT !.integral = 0,
                    !.kp = Ema(@, 2000, 1, 100),
                    !.kd = Ema(@, 400000, 1, 100),
                    !.ki = 0]

\* Current (mA) of a gain in 1/1000 applied to an angle in centidegrees.
Gain(k, angle) == Quot(k * angle, 100)

pid_soft_start(g, c) ==
  LET pd == Gain(g.kp, g.proportional) + Gain(g.kd, g.derivative)
  IN [g EXCEPT !.pid_value = Quot(5 * pd + 95 * g.pid_value, 100),
               !.integral = 0,
               !.ki = 0]

\* pid_prop with the centre boost, the centre jerk and the acceleration boost.
pid_prop_boosted(g, c) ==
  LET prop == g.proportional
      abs_prop == fabsf(prop)
      braking == SIGN(prop) # SIGN(g.erpm)
      center_boost == fminf(abs_prop, center_boost_angle(c))
      boost == Gain(center_boost_kp_adder(c), center_boost) * SIGN(prop)
      delay == g.center_stiffness_delay_ms
      jerking == g.center_jerk_counter < center_jerk_duration_ms(c)
      adder == IF g.center_jerk_counter > center_jerk_duration_ms(c) \div 2
               THEN Ema(g.center_jerk_adder, center_jerk_strength(c), 5, 100)
               ELSE Ema(g.center_jerk_adder, -center_jerk_strength(c), 5, 100)
      b1 == fabsf(prop) - Deg(BOOST_THRESHOLD)
      b2 == fabsf(prop) - Deg(BOOST_THRESHOLD2)
      boost1 == Quot(Gain(g.kp, b1) * BOOST_INTENSITY1000, 1000)
      boost2 == Quot(Gain(g.kp, b2) * BOOST_INTENSITY1000, 1000)
      accel_boost == IF abs_prop > Deg(BOOST_THRESHOLD) /\ ~braking
                     THEN boost1 + (IF abs_prop > Deg(BOOST_THRESHOLD2)
                                    THEN boost2 ELSE 0)
                     ELSE 0
  IN IF delay # 0
     THEN [ prop |-> Gain(g.kp, prop)
                       + Quot(boost * (START_CENTER_DELAY_MS - delay),
                              START_CENTER_DELAY_MS)
                       + (IF jerking THEN adder ELSE 0),
            delay |-> delay - 1,
            jerk_counter |-> IF jerking THEN g.center_jerk_counter + 1
                             ELSE g.center_jerk_counter,
            jerk_adder |-> IF jerking THEN adder ELSE g.center_jerk_adder ]
     ELSE [ prop |-> Gain(g.kp, prop) + boost + accel_boost * SIGN(prop),
            delay |-> delay,
            jerk_counter |-> g.center_jerk_counter,
            jerk_adder |-> g.center_jerk_adder ]

\* The braking limit on P+D.
pid_max(g, c, pid_prop) ==
  LET m0 == fmaxf(max_brake_amps(c), fabsf(pid_prop))
      tt == fabsf(g.torquetilt_interpolated)
      m1 == IF tt > Deg(2) THEN Quot(m0 * (600 + tt), 800) ELSE m0
  IN IF g.abs_erpm > 2000
     THEN Quot(Quot(m1, 10) * Quot(8000 + g.abs_erpm, 10), 100)
     ELSE m1

pid_normal(g, c) ==
  LET p == pid_prop_boosted(g, c)
      d0 == Gain(g.kd, g.derivative)
      d == IF fabsf(d0) > max_derivative(c) THEN max_derivative(c) * SIGN(d0)
           ELSE d0
      pd0 == p.prop + d
      lim == pid_max(g, c, p.prop)
      pd == IF SIGN(g.erpm) # SIGN(pd0) /\ fabsf(pd0) > lim
            THEN SIGN(pd0) * lim ELSE pd0
      pid_integral == Quot(g.ki * g.integral, 100000)
  IN [g EXCEPT !.pid_value = Quot(2 * (pd + pid_integral) + 8 * g.pid_value, 10),
               !.center_stiffness_delay_ms = p.delay,
               !.center_jerk_counter = p.jerk_counter,
               !.center_jerk_adder = p.jerk_adder]

pid_value_update(g, c) ==
  IF use_soft_start(c) /\ g.setpointAdjustmentType = CENTERING
  THEN pid_soft_start(g, c)
  ELSE pid_normal(g, c)


\* An output stage without the clamp.
saturate_off(g, c) == g

\* A saturation that clamps and sets the flag without sounding the buzzer.
saturate_silent(g, c) ==
  IF g.pid_value > mc_current_max(c)
  THEN [g EXCEPT !.pid_value = mc_current_max(c) - Amp(3),
                 !.current_limiting = TRUE]
  ELSE IF g.pid_value < mc_current_min(c)
  THEN [g EXCEPT !.pid_value = mc_current_min(c) + Amp(3),
                 !.current_limiting = TRUE]
  ELSE IF g.current_limiting
  THEN beep_off([g EXCEPT !.current_limiting = FALSE])
  ELSE g

\* Saturation of pid_value at the motor current limits.
saturate(g, c) ==
  IF g.pid_value > mc_current_max(c)
  THEN beep_on([g EXCEPT !.pid_value = mc_current_max(c) - Amp(3),
                         !.current_limiting = TRUE])
  ELSE IF g.pid_value < mc_current_min(c)
  THEN beep_on([g EXCEPT !.pid_value = mc_current_min(c) + Amp(3),
                         !.current_limiting = TRUE])
  ELSE IF g.current_limiting
  THEN beep_off([g EXCEPT !.current_limiting = FALSE])
  ELSE g

\* An output stage that never counts the start clicks down.
output_to_motor_without_countdown(g, c) ==
  IF g.start_counter_clicks # 0
  THEN set_current(g, g.pid_value + click_current(c))
  ELSE set_current(g, g.pid_value)

\* An output stage that commands the start click and the current one after
\* the other.
output_to_motor_with_separate_click(g, c) ==
  IF g.start_counter_clicks # 0
  THEN LET n == g.start_counter_clicks - 1
           g1 == [g EXCEPT !.start_counter_clicks = n]
       IN set_current(set_current(g1, click_current(c)), g.pid_value)
  ELSE set_current(g, g.pid_value)

\* The start click and the current command.
output_to_motor(g, c) ==
  IF g.start_counter_clicks # 0
  THEN LET n == g.start_counter_clicks - 1
           g1 == [g EXCEPT !.start_counter_clicks = n]
       IN IF n = 0 \/ n = 2
          THEN set_current(g1, g.pid_value - click_current(c))
          ELSE set_current(g1, g.pid_value + click_current(c))
  ELSE set_current(g, g.pid_value)

\* ------------------------------------------------------------ torque tilt
\* The smoothing of accel_gap in apply_torquetilt, in thousandths.
\* expected_acc and measured_acc are the values computed from the filtered
\* motor current and the acceleration mean; the result carries the local
\* static_climb. `fabsf(accel_gap > 1)` takes the absolute value of the
\* comparison, so it holds when accel_gap > 1.
Smooth(old, new, keep) == Quot(keep * old + (1000 - keep) * new, 1000)

accel_gap_update(g, expected_acc, measured_acc) ==
  LET acc_diff == expected_acc - measured_acc
      gap == g.accel_gap
      out(v, climb) == [g |-> [g EXCEPT !.accel_gap = v], static_climb |-> climb]
  IN IF g.abs_erpm > 2000 THEN out(Smooth(gap, acc_diff, 900), FALSE)
     ELSE IF g.abs_erpm > 1000 THEN out(Smooth(gap, acc_diff, 950), FALSE)
     ELSE IF g.abs_erpm > 250 THEN out(Smooth(gap, acc_diff, 980), FALSE)
     ELSE IF fabsf(expected_acc) < 1000 THEN out(0, FALSE)
     ELSE IF fabsf(expected_acc) < 1500
     THEN IF gap > 1000 THEN out(Smooth(gap, acc_diff, 900), TRUE)
          ELSE out(Smooth(gap, acc_diff, 990), FALSE)
     ELSE IF gap > 1000 THEN out(Smooth(gap, acc_diff, 900), TRUE)
          ELSE out(Smooth(gap, acc_diff, 950), FALSE)

\* ------------------------------------------------------ acceleration ring
\* accelhist[accelidx + 1] is slot accelidx of the C array; accelavg is kept
\* in units of 1 / ACCEL_ARRAY_SIZE erpm, so that the division of the running
\* mean is exact.

\* apply_torquetilt. The biquad-filtered motor current and what is computed
\* from it are not modelled: tq carries expected_acc and measured_acc, the
\* value new_ttt has when it is blended into torquetilt_target, and the step
\* size chosen for the interpolation.
apply_torquetilt(g, c, tq) ==
  IF c.torquetilt_strength = 0 THEN g
  ELSE
    LET r == accel_gap_update(g, tq.expected_acc, tq.measured_acc)
        target == fmaxf(fminf(Smooth(g.torquetilt_target, tq.new_ttt, 950),
                              c.torquetilt_angle_limit),
                        -c.torquetilt_angle_limit)
        interp == Approach(g.torquetilt_interpolated, target, tq.step_size)
    IN [r.g EXCEPT !.torquetilt_target = target,
                   !.torquetilt_interpolated = interp,
                   !.setpoint = @ + interp]

\* ---------------------------------------------------------------- turn tilt
\* apply_turntilt. The yaw rate is not modelled: tn says whether the scaled
\* yaw change is below turntilt_start_angle and carries the values cutback
\* and turntilt_target have after the scaling when it is not.
apply_turntilt(g, c, tn) ==
  LET quiet == tn.yaw_below_start \/ g.state # RUNNING
      target == IF quiet THEN 0 ELSE tn.target
      interp == Approach(g.turntilt_interpolated, target, turntilt_step_size(c))
  IN [g EXCEPT !.cutback = IF quiet THEN @ ELSE tn.cutback,
               !.turntilt_target = target,
               !.turntilt_interpolated = interp,
               !.setpoint = @ + interp]

\* A frame without torque and without yaw change.
StillTorque ==
  [expected_acc |-> 0, measured_acc |-> 0, new_ttt |-> 0, step_size |-> 0]
StillYaw == [yaw_below_start |-> TRUE, target |-> 0, cutback |-> FALSE]

\* A setpoint stage that applies the three adjustments in every mode.
setpoint_with_tilts_in_every_mode(g, c, tq, tn) ==
  Then([g EXCEPT !.setpoint = g.setpoint_target_interpolated], LAMBDA g3 :
  Then(apply_noseangling(g3, c), LAMBDA g4 :
  Then(apply_torquetilt(g4, c, tq), LAMBDA g5 :
  apply_turntilt(g5, c, tn))))

\* The setpoint of the iteration: the interpolated target, with nose angling,
\* torque tilt and turn tilt added outside Centering and ReverseStop.
setpoint_with_tilts(g, c, tq, tn) ==
  Then([g EXCEPT !.setpoint = g.setpoint_target_interpolated], LAMBDA g3 :
  IF g3.setpointAdjustmentType >= TILTBACK_NONE
  THEN Then(apply_noseangling(g3, c), LAMBDA g4 :
       Then(apply_torquetilt(g4, c, tq), LAMBDA g5 :
       apply_turntilt(g5, c, tn)))
  ELSE g3)

\* A running mean that adds the new sample without removing the old one.
acceleration_ring_without_removal(g, smooth_erpm) ==
  LET acceleration_raw == smooth_erpm - g.last_erpm
      idx == g.accelidx + 1
  IN [g EXCEPT !.last_erpm = smooth_erpm,
               !.accelavg = @ + acceleration_raw,
               !.accelhist[g.accelidx + 1] = acceleration_raw,
               !.accelidx = IF idx = ACCEL_ARRAY_SIZE THEN 0 ELSE idx]

acceleration_ring(g, smooth_erpm) ==
  LET acceleration_raw == smooth_erpm - g.last_erpm
      idx == g.accelidx + 1
  IN [g EXCEPT !.last_erpm = smooth_erpm,
               !.accelavg = @ + (acceleration_raw - g.accelhist[g.accelidx + 1]),
               !.accelhist[g.accelidx + 1] = acceleration_raw,
               !.accelidx = IF idx = ACCEL_ARRAY_SIZE THEN 0 ELSE idx]

\* ------------------------------------------------------- the balance thread
\* The sensor frame read at the top of a loop iteration.
\* in.erpm and in.smooth_erpm are the speeds as the motor layer measures
\* them. mc_interface_get_rpm returns the speed in the configured direction
\* of travel; mcpwm_foc_get_smooth_erpm returns the measured one.
mc_interface_get_rpm(c, in) ==
  IF c.m_invert_direction THEN -in.erpm ELSE in.erpm

\* A sensor frame that takes the measured speed as it is.
read_sensors_with_measured_erpm(g, c, in, t) ==
  [acceleration_ring(g, erpm_sign(c) * in.smooth_erpm) EXCEPT
            !.current_time = t,
            !.last_pitch_angle = g.pitch_angle,
            !.pitch_angle = in.pitch,
            !.roll_angle = in.roll,
            !.abs_duty_cycle = fabsf(in.duty),
            !.erpm = in.erpm,
            !.abs_erpm = fabsf(in.erpm),
            !.motor_out = <<>>,
            !.slept = 0]

read_sensors(g, c, in, t) ==
  [acceleration_ring(g, erpm_sign(c) * in.smooth_erpm) EXCEPT
            !.current_time = t,
            !.last_pitch_angle = g.pitch_angle,
            !.pitch_angle = in.pitch,
            !.roll_angle = in.roll,
            !.abs_duty_cycle = fabsf(in.duty),
            !.erpm = mc_interface_get_rpm(c, in),
            !.abs_erpm = fabsf(mc_interface_get_rpm(c, in)),
            !.motor_out = <<>>,
            !.slept = 0]

\* The beeps that tell the battery level after the start-up tune.
low_voltage_beeps(g, c, in) ==
  LET threshold == c.tiltback_lv + Volt(5)
      n == (threshold - in.v_in + 9) \div 10
  IN IF in.v_in < threshold
     THEN beep_off(chThdSleepMilliseconds(g, 300 + 500 * n))
     ELSE g


\* A start-up case that does not look at the motor parameters.
startup_case_ignoring_motor_params(g, c, in) ==
  LET g1 == brake(g, c)
  IN IF ~in.imu_ready
     THEN [g1 EXCEPT !.inactivity_timer = -1]
     ELSE [reset_vars(g1, c) EXCEPT !.state = FAULT_STARTUP,
                                    !.inactivity_timer = -1]

startup_case(g, c, in) ==
  LET g1 == brake(g, c)
  IN IF ~in.imu_ready
     THEN [g1 EXCEPT !.inactivity_timer = -1]
     ELSE IF c.motor_default
     THEN beep_off(chThdSleepMilliseconds(g1, 200))
     ELSE LET g2 == [reset_vars(g1, c) EXCEPT !.state = FAULT_STARTUP]
              g3 == IF c.deadzone > 0 THEN play_tune(g2, c.deadzone = 1) ELSE g2
              g4 == beep_off(chThdSleepMilliseconds(g3, 100))
              g5 == low_voltage_beeps(g4, c, in)
          IN [g5 EXCEPT !.inactivity_timer = -1]


\* A running case that drives the motor whatever check_faults returns.
running_case_without_fault_exit(g, c, in) ==
  LET r == check_faults([g EXCEPT !.inactivity_timer = -1, !.lock_state = -1],
                        c, FALSE)
      g1 == calculate_setpoint_target(r.g, c, in)
      g2 == calculate_setpoint_interpolated(g1, c)
      g3 == [g2 EXCEPT !.setpoint = g2.setpoint_target_interpolated]
      g5 == pid_value_update(pid_gains(pid_terms(g3, c), c), c)
  IN [output_to_motor(saturate(g5, c), c) EXCEPT !.state = r.g.state]

running_case(g, c, in) ==
  Then(check_faults([g EXCEPT !.inactivity_timer = -1, !.lock_state = -1],
                    c, FALSE), LAMBDA r :
  IF r.fault THEN r.g ELSE
  Then(calculate_setpoint_target(r.g, c, in), LAMBDA g1 :
  Then(calculate_setpoint_interpolated(g1, c), LAMBDA g2 :
  \* the frames carry no motor current and no yaw change
  Then(setpoint_with_tilts(g2, c, StillTorque, StillYaw), LAMBDA g4 :
  Then(pid_terms(g4, c), LAMBDA g5 :
  Then(pid_gains(g5, c), LAMBDA g6 :
  Then(pid_value_update(g6, c), LAMBDA g7 :
  Then(saturate(g7, c), LAMBDA g8 :
  output_to_motor(g8, c)))))))))

\* The inactivity nag of the fault states.
inactivity(g, c, in) ==
  IF g.state # FAULT_STARTUP \/ in.v_in < c.tiltback_lv + Volt(2)
  THEN LET g1 == IF g.inactivity_timer = -1
                 THEN [g EXCEPT !.inactivity_timer = g.current_time] ELSE g
       IN IF g1.inactivity_timeout > 0
             /\ (g1.current_time - g1.inactivity_timer) \div 1000
                  > g1.inactivity_timeout
          THEN beep_off(chThdSleepMilliseconds(
                 [g1 EXCEPT !.inactivity_timeout = 10,
                            !.inactivity_timer = g1.current_time], 800))
          ELSE g1
  ELSE g


\* Start conditions that leave out the roll test.
start_conditions_without_roll(g, c) ==
  /\ g.is_locked = FALSE
  /\ fabsf(g.pitch_angle) < c.startup_pitch_tolerance
  /\ g.switch_state = ON

\* Start conditions that leave out the lock test.
start_conditions_without_lock(g, c) ==
  /\ fabsf(g.pitch_angle) < c.startup_pitch_tolerance
  /\ fabsf(g.roll_angle) < c.startup_roll_tolerance
  /\ g.switch_state = ON

start_conditions(g, c) ==
  /\ g.is_locked = FALSE
  /\ fabsf(g.pitch_angle) < c.startup_pitch_tolerance
  /\ fabsf(g.roll_angle) < c.startup_roll_tolerance
  /\ g.switch_state = ON

\* A fault case that keeps integrating the pitch error while it brakes.
fault_case_integrating(g, c, in) ==
  LET g1 == check_lock(inactivity(g, c, in), c)
  IN IF start_conditions(g1, c) THEN reset_vars(g1, c)
     ELSE brake([g1 EXCEPT !.integral = @ + g1.setpoint - g1.pitch_angle], c)

\* A fault case that evaluates the faults again before anything else.
fault_case_rechecking_faults(g, c, in) ==
  LET g1 == check_lock(inactivity(check_faults(g, c, TRUE).g, c, in), c)
  IN IF start_conditions(g1, c) THEN reset_vars(g1, c) ELSE brake(g1, c)

fault_case(g, c, in) ==
  LET g1 == check_lock(inactivity(g, c, in), c)
  IN IF start_conditions(g1, c) THEN reset_vars(g1, c) ELSE brake(g1, c)


\* A FaultDuty case that tests the start conditions as the other faults do.
fault_duty_case_with_restart(g, c) ==
  LET g1 == check_faults(g, c, TRUE).g
  IN IF start_conditions(g1, c) THEN reset_vars(g1, c) ELSE brake(g1, c)

fault_duty_case(g, c) == brake(check_faults(g, c, TRUE).g, c)

\* The debug sample printed at the end of a loop iteration.
app_balance_sample_debug(g) ==
  IF g.debug_sample_index < g.debug_sample_count
  THEN [g EXCEPT !.debug_sample_index = @ + 1]
  ELSE g

\* One iteration of the loop of balance_thread, entered at system time t.
loop_iteration(g, c, in, t) ==
  Then(read_sensors(g, c, in, t), LAMBDA gs :
  Then(check_adcs(gs, c, in), LAMBDA g0 :
  Then(CASE g0.state = STARTUP -> startup_case(g0, c, in)
         [] g0.state \in RunningStates -> running_case(g0, c, in)
         [] g0.state \in LatchedFaultStates -> fault_case(g0, c, in)
         [] g0.state = FAULT_DUTY -> fault_duty_case(g0, c), LAMBDA g9 :
  app_balance_sample_debug(g9))))


\* A loop exit that silences the buzzer and commands nothing.
thread_exit_without_brake(g, c) ==
  beep_off([g EXCEPT !.motor_out = <<>>, !.slept = 0])

\* What the thread does once chThdShouldTerminateX() holds.
thread_exit(g, c) == brake(beep_off([g EXCEPT !.motor_out = <<>>, !.slept = 0]), c)

\* app_balance_start before it creates the thread.
app_balance_start(g) ==
  terminal_register_command_callback(
    terminal_register_command_callback(
      terminal_register_command_callback([g EXCEPT !.state = STARTUP],
                                         "terminal_render"),
      "terminal_sample"),
    "terminal_experiment")

\* The part of app_balance_stop that follows chThdWait.
app_balance_stop(g) ==
  terminal_unregister_callback(
    terminal_unregister_callback(
      set_current([g EXCEPT !.motor_out = <<>>], 0), "terminal_render"),
    "terminal_sample")

\* ------------------------------------------------------------- observation
\* obs records, for the properties, what the last step was and what held at
\* its start: the kind of step, the state, mode, interpolated setpoint and
\* pid_value, integral, click counter and reverse total on entry, the IMU
\* flag, input voltage and FET temperature of the frame, since when the
\* centering has been at its target, and for each timed condition the time
\* of the last loop iteration whose sensor frame did not meet it.
PreSwitchFull(g) == g.switch_state = OFF
PreSwitchHalf(g, c) ==
  (g.switch_state = HALF \/ g.switch_state = OFF)
  /\ g.abs_erpm < c.fault_adc_half_erpm
PrePitch(g, c) == fabsf(g.pitch_angle) > c.fault_pitch
PreRoll(g, c) == fabsf(g.roll_angle) > c.fault_roll
PreDuty(g, c) == g.abs_duty_cycle > c.fault_duty
PreSteep(g, deg) == fabsf(g.pitch_angle) > Deg(deg)

Unmet(old, pre, t) == IF pre THEN old ELSE t

\* reset_vars ran in the iteration that led from g to gn.
DidReset(g, gn) ==
  /\ g.state \notin RunningStates
  /\ gn.state = RUNNING \/ (g.state = STARTUP /\ gn.state = FAULT_STARTUP)

\* Since when the interpolated setpoint has equalled its target in the
\* current Centering episode (-1: it does not, or the mode is not Centering).
EqualSince(o, g, gn, t) ==
  IF gn.setpointAdjustmentType = CENTERING
     /\ gn.setpoint_target_interpolated = gn.setpoint_target
  THEN IF o.equal_since # -1 /\ ~DidReset(g, gn) THEN o.equal_since ELSE t
  ELSE -1

Observe(o, g, gn, c, in, t) ==
  [ kind |-> "tick",
    entry_state |-> g.state,
    entry_mode |-> g.setpointAdjustmentType,
    entry_interp |-> g.setpoint_target_interpolated,
    entry_pid |-> g.pid_value,
    entry_integral |-> g.integral,
    entry_clicks |-> g.start_counter_clicks,
    entry_total |-> g.reverse_total_erpm,
    entry_equal |-> o.equal_since,
    entry_limiting |-> g.current_limiting,
    entry_lock_state |-> g.lock_state,
    entry_locked |-> g.is_locked,
    entry_flash |-> g.flash_lock,
    entry_lock_timer |-> g.lock_timer,
    entry_accelhist |-> g.accelhist,
    entry_accelidx |-> g.accelidx,
    acceleration_raw |-> erpm_sign(c) * in.smooth_erpm - g.last_erpm,
    motor_erpm |-> in.erpm,
    motor_smooth_erpm |-> in.smooth_erpm,
    equal_since |-> EqualSince(o, g, gn, t),
    imu_ready |-> in.imu_ready,
    v_in |-> in.v_in,
    temp_fet |-> in.temp_fet,
    unmet |->
      [ switch_full |-> Unmet(o.unmet.switch_full, PreSwitchFull(gn), t),
        switch_half |-> Unmet(o.unmet.switch_half, PreSwitchHalf(gn, c), t),
        pitch |-> Unmet(o.unmet.pitch, PrePitch(gn, c), t),
        roll |-> Unmet(o.unmet.roll, PreRoll(gn, c), t),
        duty |-> Unmet(o.unmet.duty, PreDuty(gn, c), t),
        hv |-> Unmet(o.unmet.hv, in.v_in > c.tiltback_hv, t),
        steep10 |-> Unmet(o.unmet.steep10, PreSteep(gn, 10), t),
        steep5 |-> Unmet(o.unmet.steep5, PreSteep(gn, 5), t) ] ]

InitObs ==
  [ kind |-> "init", entry_state |-> STARTUP, entry_mode |-> CENTERING,
    entry_interp |-> 0, entry_pid |-> 0, entry_integral |-> 0,
    entry_clicks |-> 0, entry_total |-> 0, entry_equal |-> -1,
    entry_accelhist |-> <<>>, entry_accelidx |-> 0, acceleration_raw |-> 0,
    entry_limiting |-> FALSE, entry_lock_state |-> -1,
    entry_locked |-> FALSE, entry_flash |-> FALSE,
    entry_lock_timer |-> 0,
    equal_since |-> -1, imu_ready |-> FALSE, v_in |-> 0, temp_fet |-> 0,
    motor_erpm |-> 0, motor_smooth_erpm |-> 0,
    unmet |-> [switch_full |-> 0, switch_half |-> 0, pitch |-> 0,
               roll |-> 0, duty |-> 0, hv |-> 0, steep10 |-> 0,
               steep5 |-> 0] ]

\* ------------------------------------------------------------------ inputs
\* A sensor frame: pitch and roll (centidegrees), erpm, duty (percent), the
\* two pad ADCs and the input voltage (decivolts), the FET temperature
\* (decidegrees) and whether the IMU has finished starting.
Rest ==
  [ pitch |-> Deg(2), roll |-> 0, erpm |-> 0, duty |-> 0, adc1 |-> 30,
    adc2 |-> 30, v_in |-> Volt(50), temp_fet |-> 400, imu_ready |-> TRUE,
    smooth_erpm |-> 0 ]

Inputs ==
  { Rest,
    [Rest EXCEPT !.imu_ready = FALSE],
    [Rest EXCEPT !.adc1 = 0, !.adc2 = 0],
    [Rest EXCEPT !.pitch = Deg(22), !.erpm = 1000],
    [Rest EXCEPT !.roll = Deg(60), !.erpm = 1000],
    [Rest EXCEPT !.erpm = 1000, !.duty = 85],
    [Rest EXCEPT !.erpm = 1000, !.duty = 95] }

\* ----------------------------------------------------------------- actions
Init ==
  /\ conf \in ConfSet
  /\ ctl = InitG(conf)
  /\ now = loop_time(conf)
  /\ pc = "loop"
  /\ term = FALSE
  /\ obs = InitObs

Iterate(in) ==
  /\ pc = "loop"
  /\ ~term
  /\ now <= MaxTime
  /\ \E gn \in {loop_iteration(ctl, conf, in, now)} :
        /\ ctl' = gn
        /\ now' = now + gn.slept + loop_time(conf)
        /\ obs' = Observe(obs, ctl, gn, conf, in, now)
  /\ UNCHANGED <<conf, pc, term>>

TickStartup == ctl.state = STARTUP /\ \E in \in Inputs : Iterate(in)
TickRunning == ctl.state \in RunningStates /\ \E in \in Inputs : Iterate(in)
TickFault == ctl.state \in LatchedFaultStates /\ \E in \in Inputs : Iterate(in)
TickFaultDuty == ctl.state = FAULT_DUTY /\ \E in \in Inputs : Iterate(in)

\* app_balance_stop asks the thread to terminate (chThdTerminate).
RequestStop ==
  /\ pc = "loop"
  /\ ~term
  /\ term' = TRUE
  /\ UNCHANGED <<conf, ctl, now, pc, obs>>

\* The thread finds the flag set at the top of its loop and leaves.
ThreadExit ==
  /\ pc = "loop"
  /\ term
  /\ ctl' = thread_exit([ctl EXCEPT !.current_time = ctl.current_time], conf)
  /\ pc' = "exited"
  /\ obs' = [obs EXCEPT !.kind = "exit", !.entry_state = ctl.state]
  /\ UNCHANGED <<conf, now, term>>

\* chThdWait returns and app_balance_stop commands zero current.
StopReturn ==
  /\ pc = "exited"
  /\ ctl' = app_balance_stop(ctl)
  /\ pc' = "stopped"
  /\ obs' = [obs EXCEPT !.kind = "stop"]
  /\ UNCHANGED <<conf, now, term>>

Next ==
  \/ TickStartup
  \/ TickRunning
  \/ TickFault
  \/ TickFaultDuty
  \/ RequestStop
  \/ ThreadExit
  \/ StopReturn

Spec == Init /\ [][Next]_vars

\* ------------------------------------------------------- starts and stops
\* The application started and stopped any number of times: from the stopped
\* application with no callback registered, app_balance_start, loop
\* iterations on a board at rest or level, and app_balance_stop.
CycleInit ==
  /\ conf = BaseConf
  /\ ctl = [InitG(conf) EXCEPT !.terminal_callbacks = {}]
  /\ now = loop_time(conf)
  /\ pc = "stopped"
  /\ term = FALSE
  /\ obs = InitObs

CycleStart ==
  /\ pc = "stopped"
  /\ ctl' = app_balance_start(ctl)
  /\ pc' = "loop"
  /\ term' = FALSE
  /\ obs' = [obs EXCEPT !.kind = "start"]
  /\ UNCHANGED <<conf, now>>

CycleTick == \E in \in {Rest, [Rest EXCEPT !.pitch = 0]} : Iterate(in)

CycleNext ==
  \/ CycleStart
  \/ CycleTick
  \/ RequestStop
  \/ ThreadExit
  \/ StopReturn

CycleSpec == CycleInit /\ [][CycleNext]_vars

\* ------------------------------------------------- a ride at 10 iterations/s
\* The same thread with a 100 ms loop, started at system time RideStart, with
\* frames of reverse travel and of a released switch at speed, followed for
\* RideMaxTime (ms).
RideStart == 1000
RideMaxTime == 700

RideConf ==
  [BaseConf EXCEPT !.hertz = 10, !.fault_delay_switch_half = 250]

RideConfSet ==
  { [RideConf EXCEPT !.kp = 500, !.fault_delay_switch_full = 250],
    [RideConf EXCEPT !.startup_speed10 = 200, !.fault_delay_switch_full = 251] }

Level == [Rest EXCEPT !.pitch = 0]

RideInputs ==
  { Level,
    [Level EXCEPT !.pitch = Deg(2)],
    [Level EXCEPT !.adc1 = 0, !.adc2 = 0],
    [Level EXCEPT !.erpm = -80000],
    [Level EXCEPT !.erpm = 5000, !.adc1 = 0, !.adc2 = 0],
    [Level EXCEPT !.erpm = 1000, !.duty = 95] }

RideInit ==
  /\ conf \in RideConfSet
  /\ ctl = InitG(conf)
  /\ now = RideStart
  /\ pc = "loop"
  /\ term = FALSE
  /\ obs = InitObs

RideIterate(in) ==
  /\ pc = "loop"
  /\ now <= RideStart + RideMaxTime
  /\ \E gn \in {loop_iteration(ctl, conf, in, now)} :
        /\ ctl' = gn
        /\ now' = now + gn.slept + loop_time(conf)
        /\ obs' = Observe(obs, ctl, gn, conf, in, now)
  /\ UNCHANGED <<conf, pc, term>>

RideStartup == ctl.state = STARTUP /\ \E in \in RideInputs : RideIterate(in)
RideRunning == ctl.state \in RunningStates /\ \E in \in RideInputs : RideIterate(in)
RideFault == ctl.state \in LatchedFaultStates /\ \E in \in RideInputs : RideIterate(in)
RideFaultDuty == ctl.state = FAULT_DUTY /\ \E in \in RideInputs : RideIterate(in)

RideNext ==
  \/ RideStartup
  \/ RideRunning
  \/ RideFault
  \/ RideFaultDuty

RideSpec == RideInit /\ [][RideNext]_vars

\* --------------------------------------------------- tiltback at 2 iterations/s
\* The thread under quick-start and soft-start configurations with frames of
\* high duty and of high input voltage, followed up to MaxTime.
TiltConfSet ==
  { BaseConf, [BaseConf EXCEPT !.startup_speed10 = 200] }

TiltInputs ==
  { Level,
    [Level EXCEPT !.pitch = Deg(2)],
    [Level EXCEPT !.erpm = 1000, !.duty = 85],
    [Level EXCEPT !.erpm = 1000, !.duty = 95],
    [Level EXCEPT !.erpm = 1000, !.v_in = Volt(60) + 5],
    [Level EXCEPT !.erpm = 1000, !.v_in = Volt(62)] }

TiltInit ==
  /\ conf \in TiltConfSet
  /\ ctl = InitG(conf)
  /\ now = loop_time(conf)
  /\ pc = "loop"
  /\ term = FALSE
  /\ obs = InitObs

TiltStartup == ctl.state = STARTUP /\ \E in \in TiltInputs : Iterate(in)
TiltRunning == ctl.state \in RunningStates /\ \E in \in TiltInputs : Iterate(in)
TiltFault == ctl.state \in LatchedFaultStates /\ \E in \in TiltInputs : Iterate(in)
TiltFaultDuty == ctl.state = FAULT_DUTY /\ \E in \in TiltInputs : Iterate(in)

TiltNext ==
  \/ TiltStartup
  \/ TiltRunning
  \/ TiltFault
  \/ TiltFaultDuty

TiltSpec == TiltInit /\ [][TiltNext]_vars

\* ------------------------------------------------ callers on other threads
\* The balance thread interleaved, between its loop iterations, with
\* app_balance_configure and the app_balance_sample terminal command, which
\* run on the threads of their callers.
SampleCount == 2

\* What app_balance_configure writes into the globals of the model.
app_balance_configure(g, c) ==
  [g EXCEPT !.inactivity_timeout = c.shutdown_timeout,
            !.inactivity_timer = -1,
            !.lock_state = -1,
            !.is_locked = c.multi_esc]

terminal_sample(g, field, count) ==
  [g EXCEPT !.debug_sample_field = field,
            !.debug_sample_count = count,
            !.debug_sample_index = 0]

SharedConfSet ==
  { BaseConf, [BaseConf EXCEPT !.multi_esc = TRUE, !.shutdown_timeout = 10] }

SharedInputs ==
  { Rest,
    [Rest EXCEPT !.adc1 = 0, !.adc2 = 0],
    [Rest EXCEPT !.erpm = 1000, !.duty = 95] }

SharedInit ==
  /\ conf \in SharedConfSet
  /\ ctl = InitG(conf)
  /\ now = loop_time(conf)
  /\ pc = "loop"
  /\ term = FALSE
  /\ obs = InitObs

SharedStartup == ctl.state = STARTUP /\ \E in \in SharedInputs : Iterate(in)
SharedRunning == ctl.state \in RunningStates /\ \E in \in SharedInputs : Iterate(in)
SharedFault == ctl.state \in LatchedFaultStates /\ \E in \in SharedInputs : Iterate(in)
SharedFaultDuty == ctl.state = FAULT_DUTY /\ \E in \in SharedInputs : Iterate(in)

Configure ==
  /\ pc = "loop"
  /\ \E c \in SharedConfSet :
       /\ conf' = c
       /\ ctl' = app_balance_configure(ctl, c)
  /\ obs' = [obs EXCEPT !.kind = "configure"]
  /\ UNCHANGED <<now, pc, term>>

TerminalSample ==
  /\ pc = "loop"
  /\ \E count \in {0, SampleCount} :
       ctl' = terminal_sample(ctl, 1, count)
  /\ obs' = [obs EXCEPT !.kind = "terminal_sample"]
  /\ UNCHANGED <<conf, now, pc, term>>

SharedNext ==
  \/ SharedStartup
  \/ SharedRunning
  \/ SharedFault
  \/ SharedFaultDuty
  \/ Configure
  \/ TerminalSample

SharedSpec == SharedInit /\ [][SharedNext]_vars

\* ------------------------------------------------- the acceleration ring
\* The thread followed up to AccelMaxTime (more than ACCEL_ARRAY_SIZE loop
\* iterations) through frames whose smooth erpm runs through the cycle
\* 0, 40, 120, 0, ... (accelerations 40, 80, -120), with the IMU ready or
\* still starting.
AccelMaxTime == 23000

NextSmoothErpm(last) ==
  CASE last = 0 -> 40
    [] last = 40 -> 120
    [] OTHER -> 0

AccelInit ==
  /\ conf = BaseConf
  /\ ctl = InitG(conf)
  /\ now = loop_time(conf)
  /\ pc = "loop"
  /\ term = FALSE
  /\ obs = InitObs

AccelIterate ==
  /\ pc = "loop"
  /\ now <= AccelMaxTime
  /\ \E ready \in BOOLEAN :
     \E in \in {[Rest EXCEPT !.imu_ready = ready,
                              !.smooth_erpm = NextSmoothErpm(ctl.last_erpm)]} :
     \E gn \in {loop_iteration(ctl, conf, in, now)} :
          /\ ctl' = gn
          /\ now' = now + gn.slept + loop_time(conf)
          /\ obs' = Observe(obs, ctl, gn, conf, in, now)
  /\ UNCHANGED <<conf, pc, term>>

AccelStartup == ctl.state = STARTUP /\ AccelIterate
AccelRunning == ctl.state \in RunningStates /\ AccelIterate
AccelFault == ctl.state \in LatchedFaultStates /\ AccelIterate

AccelNext ==
  \/ AccelStartup
  \/ AccelRunning
  \/ AccelFault

AccelSpec == AccelInit /\ [][AccelNext]_vars

\* --------------------------------------------------------- the lock sequence
\* The thread at 10 iterations/s with the board resting nose down (pitch 22
\* degrees, no start possible) while the pads are pressed in every
\* combination, under stored lock flags and NRF channels of both kinds,
\* followed up to LockMaxTime.
LockMaxTime == 1500

LockConfSet ==
  { [BaseConf EXCEPT !.hertz = 10, !.multi_esc = l, !.nrf_channel = ch] :
      l \in BOOLEAN, ch \in {0, 99} }

Nose == [Rest EXCEPT !.pitch = Deg(22)]

LockInputs ==
  { Nose,
    [Nose EXCEPT !.adc1 = 0, !.adc2 = 0],
    [Nose EXCEPT !.adc2 = 0],
    [Nose EXCEPT !.adc1 = 0] }

LockInit ==
  /\ conf \in LockConfSet
  /\ ctl = InitG(conf)
  /\ now = loop_time(conf)
  /\ pc = "loop"
  /\ term = FALSE
  /\ obs = InitObs

LockIterate(in) ==
  /\ pc = "loop"
  /\ now <= LockMaxTime
  /\ \E gn \in {loop_iteration(ctl, conf, in, now)} :
        /\ ctl' = gn
        /\ now' = now + gn.slept + loop_time(conf)
        /\ obs' = Observe(obs, ctl, gn, conf, in, now)
  /\ UNCHANGED <<conf, pc, term>>

LockStartup == ctl.state = STARTUP /\ \E in \in LockInputs : LockIterate(in)
LockFault == ctl.state \in LatchedFaultStates /\ \E in \in LockInputs : LockIterate(in)

LockNext ==
  \/ LockStartup
  \/ LockFault

LockSpec == LockInit /\ [][LockNext]_vars

\* ------------------------------------------- the lock sequence at 25 ms
\* The thread at 40 iterations/s, started locked and unlocked. At rest the
\* board lies nose down with the pads pressed as the next step of the lock
\* sequence asks or, before the second step, level with both pads pressed;
\* once it runs it tips nose down. Followed up to KnockMaxTime (ms).
KnockMaxTime == 750

\* The frame that advances the lock sequence from step ls.
KnockOf(ls) ==
  IF ls \in {-1, 8} THEN Nose
  ELSE IF ls \in {0, 2, 4, 6} THEN [Nose EXCEPT !.adc1 = 0, !.adc2 = 0]
  ELSE IF ls \in {1, 5} THEN [Nose EXCEPT !.adc2 = 0]
  ELSE [Nose EXCEPT !.adc1 = 0]

KnockConfSet ==
  { [BaseConf EXCEPT !.hertz = 40, !.fault_delay_pitch = 50,
                     !.multi_esc = l] : l \in BOOLEAN }

KnockInit ==
  /\ conf \in KnockConfSet
  /\ ctl = InitG(conf)
  /\ now = loop_time(conf)
  /\ pc = "loop"
  /\ term = FALSE
  /\ obs = InitObs

KnockIterate(in) ==
  /\ pc = "loop"
  /\ now <= KnockMaxTime
  /\ \E gn \in {loop_iteration(ctl, conf, in, now)} :
        /\ ctl' = gn
        /\ now' = now + gn.slept + loop_time(conf)
        /\ obs' = Observe(obs, ctl, gn, conf, in, now)
  /\ UNCHANGED <<conf, pc, term>>

KnockStartup == ctl.state = STARTUP /\ \E in \in {Nose} : KnockIterate(in)
KnockRunning ==
  /\ ctl.state \in RunningStates
  /\ \E in \in {Nose} : KnockIterate(in)
KnockFault ==
  /\ ctl.state \in LatchedFaultStates
  /\ \E in \in {KnockOf(ctl.lock_state)}
               \cup (IF ctl.lock_state <= 0 THEN {Level} ELSE {}) :
       KnockIterate(in)

KnockNext ==
  \/ KnockStartup
  \/ KnockRunning
  \/ KnockFault

KnockSpec == KnockInit /\ [][KnockNext]_vars

\* ------------------------------------------------- the start-up speed flags
\* app_balance_configure called once, before the thread iterates, with every
\* start-up speed from 0.0 to DecodeMaxSpeed.9 in steps of 0.1.
DecodeMaxSpeed == 10000

DecodeConfSet ==
  { [BaseConf EXCEPT !.startup_speed10 = s] : s \in 0 .. (10 * DecodeMaxSpeed + 9) }

DecodeInit ==
  /\ conf = BaseConf
  /\ ctl = InitG(conf)
  /\ now = loop_time(conf)
  /\ pc = "loop"
  /\ term = FALSE
  /\ obs = InitObs

DecodeConfigure ==
  /\ pc = "loop"
  /\ obs.kind = "init"
  /\ \E c \in DecodeConfSet :
       /\ conf' = c
       /\ ctl' = app_balance_configure(ctl, c)
  /\ obs' = [obs EXCEPT !.kind = "configure"]
  /\ UNCHANGED <<now, pc, term>>

DecodeNext == DecodeConfigure

DecodeSpec == DecodeInit /\ [][DecodeNext]_vars

\* ------------------------------------------------ nose up in reverse stop
\* The 100 ms loop with reverse stop on, rolling backwards slowly from the
\* start; once in ReverseStop mode the pitch is any of level, 7, 12 and 16
\* degrees in each iteration. Followed for SteepMaxTime (ms).
SteepMaxTime == 1100

Backwards == [Level EXCEPT !.erpm = -1000]

SteepInputs ==
  { [Backwards EXCEPT !.pitch = p] : p \in {0, Deg(7), Deg(12), Deg(16)} }

SteepInit ==
  /\ conf = [RideConf EXCEPT !.kp = 500]
  /\ ctl = InitG(conf)
  /\ now = RideStart
  /\ pc = "loop"
  /\ term = FALSE
  /\ obs = InitObs

SteepIterate(in) ==
  /\ pc = "loop"
  /\ now <= RideStart + SteepMaxTime
  /\ \E gn \in {loop_iteration(ctl, conf, in, now)} :
        /\ ctl' = gn
        /\ now' = now + gn.slept + loop_time(conf)
        /\ obs' = Observe(obs, ctl, gn, conf, in, now)
  /\ UNCHANGED <<conf, pc, term>>

SteepStartup == ctl.state = STARTUP /\ SteepIterate(Backwards)
SteepRunning ==
  /\ ctl.state \in RunningStates
  /\ ctl.setpointAdjustmentType # REVERSESTOP
  /\ SteepIterate(Backwards)
SteepReverseStop ==
  /\ ctl.state \in RunningStates
  /\ ctl.setpointAdjustmentType = REVERSESTOP
  /\ \E in \in SteepInputs : SteepIterate(in)
SteepFault ==
  /\ ctl.state \in LatchedFaultStates
  /\ SteepIterate(Backwards)

SteepNext ==
  \/ SteepStartup
  \/ SteepRunning
  \/ SteepReverseStop
  \/ SteepFault

SteepSpec == SteepInit /\ [][SteepNext]_vars

\* ------------------------------------------------------- rolling backwards
\* The 100 ms loop with reverse stop on and with it off. The board is level
\* with both pads pressed; once it runs outside Centering, each iteration
\* sees one of: rolling backwards, backwards at 85 % duty, backwards at high
\* voltage, at low voltage, with a hot FET, rolling forwards, standing.
\* Followed for BackMaxTime (ms).
BackMaxTime == 800

BackInputs ==
  { [Level EXCEPT !.erpm = -30000],
    [Level EXCEPT !.erpm = -30000, !.duty = 85],
    [Level EXCEPT !.erpm = -30000, !.v_in = Volt(61)],
    [Level EXCEPT !.erpm = -30000, !.v_in = Volt(35)],
    [Level EXCEPT !.erpm = -30000, !.temp_fet = 900],
    [Level EXCEPT !.erpm = 20000],
    Level }

BackInit ==
  /\ conf \in { [RideConf EXCEPT !.kp = 500],
                [RideConf EXCEPT !.kp = 500, !.startup_speed10 = 200] }
  /\ ctl = InitG(conf)
  /\ now = RideStart
  /\ pc = "loop"
  /\ term = FALSE
  /\ obs = InitObs

BackIterate(in) ==
  /\ pc = "loop"
  /\ now <= RideStart + BackMaxTime
  /\ \E gn \in {loop_iteration(ctl, conf, in, now)} :
        /\ ctl' = gn
        /\ now' = now + gn.slept + loop_time(conf)
        /\ obs' = Observe(obs, ctl, gn, conf, in, now)
  /\ UNCHANGED <<conf, pc, term>>

BackStartup == ctl.state = STARTUP /\ \E in \in {Level} : BackIterate(in)
BackCentering ==
  /\ ctl.state \in RunningStates
  /\ ctl.setpointAdjustmentType = CENTERING
  /\ \E in \in {Level} : BackIterate(in)
BackRunning ==
  /\ ctl.state \in RunningStates
  /\ ctl.setpointAdjustmentType # CENTERING
  /\ \E in \in BackInputs : BackIterate(in)
BackFault ==
  /\ ctl.state \in LatchedFaultStates
  /\ \E in \in {Level} : BackIterate(in)

BackNext ==
  \/ BackStartup
  \/ BackCentering
  \/ BackRunning
  \/ BackFault

BackSpec == BackInit /\ [][BackNext]_vars

\* ------------------------------------------------------ inverted direction
\* The 100 ms loop with the motor direction inverted and not, the motor
\* turning either way or standing. Followed for InvertMaxTime (ms).
InvertMaxTime == 700

InvertInputs ==
  { [Level EXCEPT !.erpm = e, !.smooth_erpm = e] : e \in {-1000, 0, 1000} }

InvertInit ==
  /\ conf \in { [RideConf EXCEPT !.kp = 500, !.m_invert_direction = inv] :
                  inv \in BOOLEAN }
  /\ ctl = InitG(conf)
  /\ now = RideStart
  /\ pc = "loop"
  /\ term = FALSE
  /\ obs = InitObs

InvertIterate(in) ==
  /\ pc = "loop"
  /\ now <= RideStart + InvertMaxTime
  /\ \E gn \in {loop_iteration(ctl, conf, in, now)} :
        /\ ctl' = gn
        /\ now' = now + gn.slept + loop_time(conf)
        /\ obs' = Observe(obs, ctl, gn, conf, in, now)
  /\ UNCHANGED <<conf, pc, term>>

InvertStartup == ctl.state = STARTUP /\ \E in \in InvertInputs : InvertIterate(in)
InvertRunning ==
  ctl.state \in RunningStates /\ \E in \in InvertInputs : InvertIterate(in)
InvertFault ==
  ctl.state \in LatchedFaultStates /\ \E in \in InvertInputs : InvertIterate(in)

InvertNext ==
  \/ InvertStartup
  \/ InvertRunning
  \/ InvertFault

InvertSpec == InvertInit /\ [][InvertNext]_vars

\* --------------------------------------------------- the acceleration gap
\* One smoothing step of accel_gap from every combination of the gaps and
\* speeds below, for expected and measured accelerations of either sign
\* (all in thousandths).
GapInit ==
  /\ conf = [BaseConf EXCEPT !.torquetilt_strength = 1]
  /\ \E gap \in {-2000, -1001, -1000, -500, 0, 500, 1000, 1001, 2000},
        erpm \in {0, 250, 251, 1500, 3000} :
       ctl = [InitG(conf) EXCEPT !.state = RUNNING,
                                 !.setpointAdjustmentType = TILTBACK_NONE,
                                 !.accel_gap = gap,
                                 !.erpm = erpm, !.abs_erpm = erpm]
  /\ now = loop_time(conf)
  /\ pc = "loop"
  /\ term = FALSE
  /\ obs = [kind |-> "init"]

GapStep ==
  /\ obs.kind = "init"
  /\ \E expected_acc \in {-2000, -1200, -500, 0, 500, 1200, 2000},
        measured_acc \in {-1000, 0, 1000} :
       \E r \in {accel_gap_update(ctl, expected_acc, measured_acc)} :
         /\ ctl' = r.g
         /\ obs' = [kind |-> "accel_gap", entry |-> ctl,
                    expected_acc |-> expected_acc,
                    measured_acc |-> measured_acc,
                    static_climb |-> r.static_climb]
  /\ UNCHANGED <<conf, now, pc, term>>

GapNext == GapStep

GapSpec == GapInit /\ [][GapNext]_vars

\* ------------------------------------------------- the setpoint stage alone
\* One pass through the setpoint stage of a running iteration, from every
\* mode, with the tilt values all at rest or all away from rest, with torque
\* tilt configured and not, under frames with and without yaw change.
TiltsAtRest ==
  [noseangling_interpolated |-> 0, torquetilt_target |-> 0,
   torquetilt_interpolated |-> 0, accel_gap |-> 0, turntilt_target |-> 0,
   turntilt_interpolated |-> 0, cutback |-> FALSE]
TiltsAway ==
  [noseangling_interpolated |-> 50, torquetilt_target |-> Deg(3),
   torquetilt_interpolated |-> Deg(2), accel_gap |-> 1500,
   turntilt_target |-> Deg(1), turntilt_interpolated |-> 50, cutback |-> TRUE]

\* The tilt values of a controller state.
Tilts(g) == [f \in DOMAIN TiltsAtRest |-> g[f]]

GateInit ==
  /\ conf \in { [BaseConf EXCEPT !.tiltback_constant = Deg(1),
                                 !.torquetilt_strength = s] : s \in {0, 1} }
  /\ \E st \in {RUNNING, RUNNING_TILTBACK_DUTY},
        mode \in {CENTERING, REVERSESTOP, TILTBACK_NONE, TILTBACK_DUTY,
                  TILTBACK_HV, TILTBACK_LV},
        erpm \in {0, 3000}, interp \in {0, Deg(2)},
        tilts \in {TiltsAtRest, TiltsAway} :
       ctl = [f \in DOMAIN InitG(conf) |->
                IF f \in DOMAIN tilts THEN tilts[f]
                ELSE [InitG(conf) EXCEPT
                        !.state = st, !.setpointAdjustmentType = mode,
                        !.erpm = erpm, !.abs_erpm = erpm,
                        !.setpoint = Deg(5),
                        !.setpoint_target_interpolated = interp][f]]
  /\ now = loop_time(conf)
  /\ pc = "loop"
  /\ term = FALSE
  /\ obs = [kind |-> "init"]

GateStep ==
  /\ obs.kind = "init"
  /\ \E expected_acc \in {0, 2000}, new_ttt \in {0, Deg(4)},
        quiet \in BOOLEAN, target \in {0, Deg(2)}, cut \in BOOLEAN :
       LET tq == [expected_acc |-> expected_acc, measured_acc |-> 0,
                  new_ttt |-> new_ttt, step_size |-> 50]
           tn == [yaw_below_start |-> quiet, target |-> target,
                  cutback |-> cut]
       IN /\ ctl' = setpoint_with_tilts(ctl, conf, tq, tn)
          /\ obs' = [kind |-> "setpoint", entry |-> ctl]
  /\ UNCHANGED <<conf, now, pc, term>>

GateNext == GateStep

GateSpec == GateInit /\ [][GateNext]_vars

\* ------------------------------------------------- apply_noseangling alone
\* One call of apply_noseangling with torque tilt present: every combination
\* of the speeds, torque-tilt and nose angles (centidegrees) below, with and
\* without a constant and a variable tiltback configured.
NoseInit ==
  /\ conf \in { [BaseConf EXCEPT !.tiltback_constant = k,
                                 !.tiltback_variable1000 = v,
                                 !.tiltback_variable_max = Deg(3)] :
                  k \in {0, Deg(1)}, v \in {0, 50} }
  /\ \E erpm \in {-8000, -2000, -400, 0, 400, 2000, 8000},
        tt \in {Deg(-2), Deg(-1), 0, Deg(1), Deg(2)},
        nose \in {-50, 0, 50} :
       ctl = [InitG(conf) EXCEPT
                !.state = RUNNING, !.setpointAdjustmentType = TILTBACK_NONE,
                !.erpm = erpm, !.abs_erpm = fabsf(erpm),
                !.torquetilt_interpolated = tt,
                !.noseangling_interpolated = nose]
  /\ now = loop_time(conf)
  /\ pc = "loop"
  /\ term = FALSE
  /\ obs = [kind |-> "init"]

NoseStep ==
  /\ obs.kind = "init"
  /\ ctl' = apply_noseangling(ctl, conf)
  /\ obs' = [kind |-> "apply_noseangling", entry |-> ctl,
             noseangling_target |-> noseangling_target(ctl, conf)]
  /\ UNCHANGED <<conf, now, pc, term>>

NoseNext == NoseStep

NoseSpec == NoseInit /\ [][NoseNext]_vars

\* -------------------------------------------- calculate_setpoint_target alone
\* One call of calculate_setpoint_target at time TargetNow in state Running or
\* RunningTiltbackDuty, from every combination of mode, speed, reverse total,
\* integral, duty, target, input voltage and FET temperature below, with
\* reverse stop on and off (ReverseStop mode only where it is on).
TargetNow == 5000

TargetInit ==
  /\ conf \in { RideConf, [RideConf EXCEPT !.startup_speed10 = 200] }
  /\ \E st \in {RUNNING, RUNNING_TILTBACK_DUTY},
        mode \in {CENTERING, REVERSESTOP, TILTBACK_NONE, TILTBACK_DUTY},
        erpm \in {-30000, -1000, 0, 20000},
        total \in {-120000, -60000, -25000, -20000, 0, 24000, 26000, 70000},
        integral \in {0, 500}, duty \in {0, 85}, target \in {0, Deg(3)} :
       /\ mode = REVERSESTOP => use_reverse_stop(conf)
       /\ ctl = [InitG(conf) EXCEPT
                   !.state = st, !.setpointAdjustmentType = mode,
                   !.erpm = erpm, !.abs_erpm = fabsf(erpm),
                   !.reverse_total_erpm = total, !.integral = integral,
                   !.abs_duty_cycle = duty, !.setpoint_target = target,
                   !.current_time = TargetNow,
                   !.reverse_timer = TargetNow - 700,
                   !.softstart_timer = TargetNow - 700,
                   !.fault_switch_timer = TargetNow]
  /\ now = TargetNow
  /\ pc = "loop"
  /\ term = FALSE
  /\ obs = [kind |-> "init"]

TargetInputs ==
  { [Level EXCEPT !.v_in = v, !.temp_fet = temp] :
      v \in {Volt(35), Volt(50), Volt(61)}, temp \in {400, 900} }

TargetStep ==
  /\ obs.kind = "init"
  /\ \E in \in TargetInputs :
       /\ ctl' = calculate_setpoint_target(ctl, conf, in)
       /\ obs' = [kind |-> "calculate_setpoint_target", entry |-> ctl,
                  v_in |-> in.v_in, temp_fet |-> in.temp_fet]
  /\ UNCHANGED <<conf, now, pc, term>>

TargetNext == TargetStep

TargetSpec == TargetInit /\ [][TargetNext]_vars

\* ------------------------------------------------------ check_faults alone
\* One call of check_faults at time FaultsNow, from every combination of
\* switch state, speed, pitch, roll, duty, mode and timer ages below, with
\* and without ignoreTimers. A timer is FaultsNow (just reset), 700 ms old
\* (past the 600 ms delays, within the 1200 ms one) or 2000 ms old.
FaultsNow == 5000

FaultsInit ==
  /\ conf = BaseConf
  /\ \E st \in {RUNNING, FAULT_STARTUP}, sw \in {ON, HALF, OFF},
        erpm \in {0, 5000}, pitch \in {0, Deg(12), Deg(25)},
        roll \in {0, Deg(50)}, duty \in {0, 95},
        mode \in {TILTBACK_NONE, REVERSESTOP}, total \in {0, 200000},
        tfull \in {FaultsNow - 2000, FaultsNow - 700, FaultsNow},
        trev \in {FaultsNow - 700, FaultsNow},
        thalf \in {FaultsNow - 2000, FaultsNow},
        tpitch \in {FaultsNow - 2000, FaultsNow},
        troll \in {FaultsNow - 2000, FaultsNow},
        tduty \in {FaultsNow - 2000, FaultsNow} :
       ctl = [InitG(conf) EXCEPT
                !.state = st, !.switch_state = sw, !.abs_erpm = erpm,
                !.pitch_angle = pitch, !.roll_angle = roll,
                !.abs_duty_cycle = duty, !.setpointAdjustmentType = mode,
                !.reverse_total_erpm = total, !.current_time = FaultsNow,
                !.fault_switch_timer = tfull, !.reverse_timer = trev,
                !.fault_switch_half_timer = thalf,
                !.fault_angle_pitch_timer = tpitch,
                !.fault_angle_roll_timer = troll,
                !.fault_duty_timer = tduty]
  /\ now = FaultsNow
  /\ pc = "loop"
  /\ term = FALSE
  /\ obs = [kind |-> "init"]

FaultsCheck ==
  /\ obs.kind = "init"
  /\ \E ignoreTimers \in BOOLEAN :
       LET r == check_faults(ctl, conf, ignoreTimers)
       IN /\ ctl' = r.g
          /\ obs' = [kind |-> "check_faults", entry |-> ctl,
                     ignoreTimers |-> ignoreTimers, returned |-> r.fault]
  /\ UNCHANGED <<conf, now, pc, term>>

FaultsNext == FaultsCheck

FaultsSpec == FaultsInit /\ [][FaultsNext]_vars

\* ------------------------------------------------------- the pad switch alone
\* check_adcs applied to pad voltages drawn from AdcValues under thresholds
\* drawn from AdcThresholds (0: no switch on that input).
AdcThresholds == {0, 20, 30}
AdcValues == {0, 20, 25, 30, 40}

AdcInit ==
  /\ conf \in { [BaseConf EXCEPT !.fault_adc1 = f1, !.fault_adc2 = f2] :
                  f1 \in AdcThresholds, f2 \in AdcThresholds }
  /\ ctl = InitG(conf)
  /\ now = 0
  /\ pc = "loop"
  /\ term = FALSE
  /\ obs = InitObs

AdcRead ==
  /\ \E a1 \in AdcValues, a2 \in AdcValues :
       ctl' = check_adcs(ctl, conf, [Rest EXCEPT !.adc1 = a1, !.adc2 = a2])
  /\ obs' = [obs EXCEPT !.kind = "adc"]
  /\ UNCHANGED <<conf, now, pc, term>>

AdcNext == AdcRead



AdcSpec == AdcInit /\ [][AdcNext]_vars

\* -------------------------------------------------------------- properties
\* The drive-current commands of the last step, and those that are not zero.
DriveCmds ==
  { ctl.motor_out[i] : i \in { j \in 1..Len(ctl.motor_out) :
                                 ctl.motor_out[j].cmd = "current" } }
NonZeroDrive == { m \in DriveCmds : m.mA # 0 }
BrakeCmds ==
  { ctl.motor_out[i] : i \in { j \in 1..Len(ctl.motor_out) :
                                 ctl.motor_out[j].cmd = "brake" } }
Tick == obs.kind = "tick"
\* brake() returned before commanding anything: its timeout has lapsed.
BrakeTimedOut == ctl.brake_timeout # 0 /\ ctl.current_time > ctl.brake_timeout
BrakedOrTimedOut ==
  \/ ctl.motor_out = <<BrakeCmd(brake_current(conf))>>
  \/ ctl.motor_out = <<>> /\ BrakeTimedOut
\* The fault states check_faults raises.
DetectedFaults == FaultStates \ {FAULT_STARTUP}

\* C1, as stated: in a loop iteration that starts outside the Running states
\* no drive-current command with a non-zero value is issued.
C1_NoDriveOutsideRunning ==
  Tick /\ obs.entry_state \notin RunningStates => NonZeroDrive = {}

\* C1, amended: in a loop iteration that starts outside the Running states
\* every brake command carries the configured brake current, and the only
\* non-zero drive currents are the 1 A pulses of play_tune, issued in the
\* Startup iteration that moves to FaultStartup when deadzone > 0.
C1_DriveOnlyInStartupTune ==
  Tick /\ obs.entry_state \notin RunningStates =>
    /\ \A m \in BrakeCmds : m.mA = brake_current(conf)
    /\ \A m \in NonZeroDrive :
         /\ obs.entry_state = STARTUP
         /\ ctl.state = FAULT_STARTUP
         /\ conf.deadzone > 0
         /\ fabsf(m.mA) = Amp(1)

C1_Witness ==
  /\ Tick
  /\ obs.entry_state = STARTUP
  /\ ctl.state = FAULT_STARTUP
  /\ NonZeroDrive # {}
  /\ BrakeCmds # {}

\* C2, as stated: in the iteration that detects a fault and in every
\* following iteration that ends in a fault state, the brake current is
\* commanded and no drive current is.
C2_BrakeInEveryFaultTick ==
  Tick /\ ctl.state \in DetectedFaults =>
    BrakeCmds # {} /\ DriveCmds = {}

\* C2, amended: a Running iteration whose check_faults(false) reports a fault
\* stops there: it commands nothing (neither brake nor drive current) and
\* leaves the interpolated setpoint and pid_value as they were; every
\* following iteration that ends in a fault state commands the brake current
\* and nothing else, unless the brake timeout has lapsed, and then it
\* commands nothing.
C2_FaultTicks ==
  Tick /\ ctl.state \in DetectedFaults =>
    /\ obs.entry_state \in RunningStates =>
         /\ ctl.motor_out = <<>>
         /\ ctl.setpoint_target_interpolated = obs.entry_interp
         /\ ctl.pid_value = obs.entry_pid
    /\ obs.entry_state \notin RunningStates =>
         /\ obs.entry_state \in DetectedFaults
         /\ BrakedOrTimedOut

C2_Witness ==
  /\ Tick
  /\ obs.entry_state \in RunningStates
  /\ ctl.state \in DetectedFaults
  /\ ctl.pid_value # 0
  /\ ctl.motor_out = <<>>

\* A fault iteration whose brake was skipped because the timeout had lapsed.
C2_BrakeSkipped ==
  /\ Tick
  /\ obs.entry_state \in DetectedFaults
  /\ ctl.state \in DetectedFaults
  /\ ctl.motor_out = <<>>

\* C3, as stated: check_faults(false) raises a timed fault only when the
\* fault's precondition has held in every iteration over more than the
\* configured delay, that is when the last iteration whose frame did not
\* meet the precondition lies more than the delay back. (For SwitchFull the
\* shorter half-switch delay counts at low speed, and the quick stop and the
\* reverse stop, which have no delay, are left out.)
C3_RaisedOnlyAfterDelay ==
  Tick /\ obs.entry_state \in RunningStates =>
    /\ ctl.state = FAULT_ANGLE_PITCH =>
         ctl.current_time - obs.unmet.pitch > conf.fault_delay_pitch
    /\ ctl.state = FAULT_ANGLE_ROLL =>
         ctl.current_time - obs.unmet.roll > conf.fault_delay_roll
    /\ ctl.state = FAULT_DUTY =>
         ctl.current_time - obs.unmet.duty > conf.fault_delay_duty
    /\ ctl.state = FAULT_SWITCH_HALF =>
         ctl.current_time - obs.unmet.switch_half > conf.fault_delay_switch_half
    /\ ( /\ ctl.state = FAULT_SWITCH_FULL
         /\ ctl.setpointAdjustmentType # REVERSESTOP
         /\ fabsf(ctl.pitch_angle) <= Deg(15) ) =>
         ctl.current_time - obs.unmet.switch_full
           > fminf(conf.fault_delay_switch_full, conf.fault_delay_switch_half)

\* C4: an iteration that starts in a fault state other than FaultDuty ends
\* in a Running state exactly when the board is unlocked, |pitch| and |roll|
\* are below their start-up tolerances and the switch is On; it then ends in
\* RUNNING, in Centering mode, with integral = 0 and pid_value = 0, and
\* otherwise it stays in its fault state.
C4_StartIffConditions ==
  Tick /\ obs.entry_state \in LatchedFaultStates =>
    /\ ctl.state \in RunningStates <=>
         /\ ~ctl.is_locked
         /\ fabsf(ctl.pitch_angle) < conf.startup_pitch_tolerance
         /\ fabsf(ctl.roll_angle) < conf.startup_roll_tolerance
         /\ ctl.switch_state = ON
    /\ ctl.state \in RunningStates =>
         /\ ctl.state = RUNNING
         /\ ctl.setpointAdjustmentType = CENTERING
         /\ ctl.integral = 0
         /\ ctl.pid_value = 0
    /\ ctl.state \notin RunningStates => ctl.state = obs.entry_state

C4_Witness ==
  /\ Tick
  /\ obs.entry_state \in LatchedFaultStates \ {FAULT_STARTUP}
  /\ obs.entry_pid # 0
  /\ ctl.state = RUNNING
  /\ ctl.pid_value = 0

\* C5: an iteration that starts in a fault state and in which is_locked is
\* true when the start conditions are tested does not end in a Running
\* state, whatever the pitch, the roll and the switch are.
C5_LockedNeverStarts ==
  Tick /\ obs.entry_state \in FaultStates /\ ctl.is_locked =>
    ctl.state \notin RunningStates

C5_Witness ==
  /\ Tick
  /\ obs.entry_state \in LatchedFaultStates
  /\ ctl.is_locked
  /\ fabsf(ctl.pitch_angle) < conf.startup_pitch_tolerance
  /\ fabsf(ctl.roll_angle) < conf.startup_roll_tolerance
  /\ ctl.switch_state = ON
  /\ ctl.state = obs.entry_state

\* C6: an iteration that starts in FaultDuty never ends in a Running state;
\* it ends in FaultDuty when no other fault's precondition holds in its
\* frame, the start conditions notwithstanding, and when it ends in another
\* fault state that fault's precondition holds in the frame, however
\* recently it did not.
C6_FaultDutyNeedsOtherFault ==
  Tick /\ obs.entry_state = FAULT_DUTY =>
    /\ ctl.state \in DetectedFaults
    /\ ( /\ ~PreSwitchFull(ctl)
         /\ ~PreSwitchHalf(ctl, conf)
         /\ ~PrePitch(ctl, conf)
         /\ ~PreRoll(ctl, conf)
         /\ ctl.setpointAdjustmentType # REVERSESTOP ) => ctl.state = FAULT_DUTY
    /\ ctl.state = FAULT_SWITCH_FULL => PreSwitchFull(ctl)
    /\ ctl.state = FAULT_SWITCH_HALF => PreSwitchHalf(ctl, conf)
    /\ ctl.state = FAULT_ANGLE_PITCH => PrePitch(ctl, conf)
    /\ ctl.state = FAULT_ANGLE_ROLL => PreRoll(ctl, conf)
    /\ ctl.state = FAULT_REVERSE => ctl.setpointAdjustmentType = REVERSESTOP
    /\ ctl.state = FAULT_DUTY =>
         PreDuty(ctl, conf) \/ ~(PrePitch(ctl, conf) \/ PreRoll(ctl, conf))

C6_Witness ==
  /\ Tick
  /\ obs.entry_state = FAULT_DUTY
  /\ ctl.state = FAULT_DUTY
  /\ ~PreDuty(ctl, conf)
  /\ ~ctl.is_locked
  /\ fabsf(ctl.pitch_angle) < conf.startup_pitch_tolerance
  /\ fabsf(ctl.roll_angle) < conf.startup_roll_tolerance
  /\ ctl.switch_state = ON

\* An iteration that leaves FaultDuty for the pitch fault although the pitch
\* was within its limit less than the pitch delay ago.
C6_LeavesWithoutDelay ==
  /\ Tick
  /\ obs.entry_state = FAULT_DUTY
  /\ ctl.state = FAULT_ANGLE_PITCH
  /\ ctl.current_time - obs.unmet.pitch <= conf.fault_delay_pitch

\* C7, as stated: an iteration that starts in Startup ends in Startup or
\* FaultStartup, in Startup exactly when the IMU is not ready or the motor
\* parameters are the defaults, and when it stays in Startup the brake
\* current has been commanded.
C7_StartupAlwaysBrakes ==
  Tick /\ obs.entry_state = STARTUP =>
    /\ ctl.state \in {STARTUP, FAULT_STARTUP}
    /\ ctl.state = STARTUP <=> (~obs.imu_ready \/ conf.motor_default)
    /\ ctl.state = STARTUP => BrakeCmds # {}

\* C7, amended: an iteration that starts in Startup ends in Startup or
\* FaultStartup, in Startup exactly when the IMU is not ready or the motor
\* parameters are the defaults; when it stays in Startup it has commanded
\* the brake current and nothing else, unless the brake timeout has lapsed,
\* and then it has commanded nothing. A Running state is entered only from
\* a fault state other than FaultDuty, or kept from a Running state.
C7_StartupToFaultStartup ==
  /\ Tick /\ obs.entry_state = STARTUP =>
       /\ ctl.state \in {STARTUP, FAULT_STARTUP}
       /\ ctl.state = STARTUP <=> (~obs.imu_ready \/ conf.motor_default)
       /\ ctl.state = STARTUP => BrakedOrTimedOut
  /\ Tick /\ ctl.state \in RunningStates =>
       obs.entry_state \in RunningStates \cup LatchedFaultStates

C7_Witness ==
  /\ Tick
  /\ obs.entry_state = STARTUP
  /\ ctl.state = STARTUP
  /\ obs.imu_ready
  /\ ctl.motor_out = <<>>

\* C8, as stated: when the thread has left its loop the command it issued
\* on the way out is a brake command of zero current.
C8_ExitBrakesWithZero ==
  pc = "exited" => ctl.motor_out = <<BrakeCmd(0)>>

\* What C8 asks of a single step.
C8_ExitStep ==
  /\ term => /\ ctl'.state = ctl.state
             /\ ctl'.current_time = ctl.current_time
             /\ pc' # pc
  /\ pc = "loop" /\ pc' = "exited" => ~ctl'.buzzer /\ BrakedOrTimedOut'
  /\ pc' = "stopped" => ctl'.motor_out = <<CurrentCmd(0)>>

\* C8, amended: once termination is requested no loop iteration runs (the
\* state and the time of the last frame stay as they are); on leaving the
\* loop the thread silences the buzzer and calls brake(), which commands
\* the configured brake current unless the brake timeout has lapsed; and
\* the command app_balance_stop issues before it returns is a drive current
\* of zero.
C8_StopBrakesThenZeroes == [][C8_ExitStep]_vars

C8_Witness ==
  /\ pc = "stopped"
  /\ obs.entry_state \in RunningStates
  /\ ctl.pid_value # 0
  /\ ctl.motor_out = <<CurrentCmd(0)>>

\* The thread left its loop from a Running state with the brake current
\* commanded.
C8_ExitFromRunning ==
  /\ pc = "exited"
  /\ obs.entry_state \in RunningStates
  /\ ctl.motor_out = <<BrakeCmd(brake_current(conf))>>

\* C9, as stated: after a Running iteration that reaches the output stage
\* pid_value lies 3 A inside both current limits.
C9_ThreeAmpsInside ==
  Tick /\ obs.entry_state \in RunningStates /\ ctl.state \in RunningStates =>
    /\ mc_current_min(conf) + Amp(3) <= ctl.pid_value
    /\ ctl.pid_value <= mc_current_max(conf) - Amp(3)

\* C9, amended: the output stage replaces a pid_value above mc_current_max
\* by mc_current_max - 3 A and one below mc_current_min by
\* mc_current_min + 3 A, and leaves any other value alone; so after a
\* Running iteration that reaches the output stage pid_value lies between
\* the lesser of mc_current_min and mc_current_max - 3 A and the greater of
\* mc_current_max and mc_current_min + 3 A (within the limits themselves
\* when they are 3 A or more apart), and it is one of the two replacement
\* values whenever current_limiting is set.
C9_WithinLimits ==
  Tick /\ obs.entry_state \in RunningStates /\ ctl.state \in RunningStates =>
    /\ fminf(mc_current_min(conf), mc_current_max(conf) - Amp(3)) <= ctl.pid_value
    /\ ctl.pid_value <= fmaxf(mc_current_max(conf), mc_current_min(conf) + Amp(3))
    /\ mc_current_max(conf) - mc_current_min(conf) >= Amp(3) =>
         /\ mc_current_min(conf) <= ctl.pid_value
         /\ ctl.pid_value <= mc_current_max(conf)
    /\ ctl.current_limiting =>
         ctl.pid_value \in { mc_current_max(conf) - Amp(3),
                             mc_current_min(conf) + Amp(3) }

C9_Witness ==
  /\ Tick
  /\ obs.entry_state \in RunningStates
  /\ ctl.state \in RunningStates
  /\ ~ctl.current_limiting
  /\ ctl.pid_value > mc_current_max(conf) - Amp(3)
  /\ ctl.pid_value <= mc_current_max(conf)

\* The clamp has acted: a Running iteration ended with the replacement value.
C9_Clamped ==
  /\ Tick
  /\ ctl.state \in RunningStates
  /\ ctl.current_limiting
  /\ ctl.pid_value = mc_current_max(conf) - Amp(3)

\* The per-iteration step of an adjustment mode.
StepOfMode(m) ==
  get_setpoint_adjustment_step_size([setpointAdjustmentType |-> m], conf)

\* C10, as stated: over any loop iteration the interpolated setpoint moves by
\* no more than the step of the mode that was in force when the iteration
\* started.
C10_StepOfPreviousMode ==
  Tick => fabsf(ctl.setpoint_target_interpolated - obs.entry_interp)
            <= StepOfMode(obs.entry_mode)

\* C10, amended: over a Running iteration that raises no fault the
\* interpolated setpoint moves by no more than the step of the mode in
\* force after that iteration's calculate_setpoint_target; an iteration
\* that runs reset_vars (Startup to FaultStartup, fault to Running) sets it
\* to half the pitch angle, whatever it was; every other iteration leaves
\* it as it was.
C10_StepOfCurrentMode ==
  Tick =>
    IF obs.entry_state \in RunningStates /\ ctl.state \in RunningStates
    THEN fabsf(ctl.setpoint_target_interpolated - obs.entry_interp)
           <= StepOfMode(ctl.setpointAdjustmentType)
    ELSE IF ctl.state # obs.entry_state /\ ctl.state \in {RUNNING, FAULT_STARTUP}
    THEN ctl.setpoint_target_interpolated = Quot(ctl.pitch_angle, 2)
    ELSE ctl.setpoint_target_interpolated = obs.entry_interp

C10_Witness ==
  /\ Tick
  /\ obs.entry_state \in RunningStates
  /\ ctl.state \in RunningStates
  /\ ctl.setpointAdjustmentType # obs.entry_mode
  /\ fabsf(ctl.setpoint_target_interpolated - obs.entry_interp)
       > StepOfMode(obs.entry_mode)

\* A restart that moves the interpolated setpoint by more than any step.
C10_ResetJump ==
  /\ Tick
  /\ obs.entry_state \in LatchedFaultStates
  /\ ctl.state = RUNNING
  /\ fabsf(ctl.setpoint_target_interpolated - obs.entry_interp)
       > startup_step_size(conf)

C12_IntegralFrozenInFault ==
  Tick /\ obs.entry_state \in FaultStates =>
    /\ ctl.state \in FaultStates => ctl.integral = obs.entry_integral
    /\ ctl.integral # obs.entry_integral =>
         ctl.state = RUNNING /\ ctl.integral = 0

C12_Witness ==
  /\ Tick
  /\ obs.entry_state \in DetectedFaults
  /\ ctl.state \in FaultStates
  /\ ctl.integral # 0
  /\ ctl.integral = obs.entry_integral

\* C13: the start-click counter never increases inside a Running episode: a
\* Running iteration that reaches the output stage decreases it by exactly
\* one until it is 0 and then leaves it at 0, a Running iteration that raises
\* a fault leaves it alone, and only reset_vars (Startup -> FaultStartup,
\* fault -> Running) re-arms it, to the configured maximum, so that a fault
\* state lies between two re-arms.
C13_ClicksCountDown ==
  Tick =>
    /\ obs.entry_state \in RunningStates /\ ctl.state \in RunningStates =>
         ctl.start_counter_clicks =
           IF obs.entry_clicks > 0 THEN obs.entry_clicks - 1 ELSE 0
    /\ obs.entry_state \in RunningStates /\ ctl.state \notin RunningStates =>
         ctl.start_counter_clicks = obs.entry_clicks
    /\ obs.entry_state \notin RunningStates =>
         \/ ctl.start_counter_clicks = obs.entry_clicks
            /\ (ctl.state = RUNNING => obs.entry_clicks = start_counter_clicks_max(conf))
         \/ /\ ctl.start_counter_clicks = start_counter_clicks_max(conf)
            /\ \/ obs.entry_state = STARTUP /\ ctl.state = FAULT_STARTUP
               \/ obs.entry_state \in FaultStates /\ ctl.state = RUNNING

C13_Witness ==
  /\ Tick
  /\ obs.entry_state \in RunningStates
  /\ ctl.state \in RunningStates
  /\ obs.entry_clicks = 1
  /\ ctl.start_counter_clicks = 0
  /\ start_counter_clicks_max(conf) = 2

\* C14, as stated, for the modes other than ReverseStop: in a Running
\* iteration whose switch is Off at more than 3000 erpm while high-speed
\* full-switch faults are disabled, no switch fault is raised, the switch
\* fault timer is held at the current time and the buzzer is on.
C14_NoSwitchFaultAtSpeed ==
  /\ Tick
  /\ obs.entry_state \in RunningStates
  /\ obs.entry_mode # REVERSESTOP
  /\ ctl.switch_state = OFF
  /\ ctl.abs_erpm > 3000
  /\ ~allow_high_speed_full_switch_faults(conf)
  => /\ ctl.state \notin {FAULT_SWITCH_FULL, FAULT_SWITCH_HALF}
     /\ ctl.fault_switch_timer = ctl.current_time
     /\ ctl.buzzer

\* C15, as stated: a Running iteration that enters its fault check in
\* ReverseStop mode with |reverse_total_erpm| > 3 * reverse_tolerance, the
\* switch not Off, raises FaultReverse, whatever the sign of the total.
C15_ReverseFaultOnMagnitude ==
  /\ Tick
  /\ obs.entry_state \in RunningStates
  /\ obs.entry_mode = REVERSESTOP
  /\ fabsf(obs.entry_total) > 3 * reverse_tolerance
  /\ ctl.switch_state # OFF
  => ctl.state = FAULT_REVERSE

\* C16, as stated: a Running iteration that raises no fault and reaches the
\* high-voltage branch (mode neither Centering nor ReverseStop on entry, duty
\* not above tiltback_duty, v_in above tiltback_hv) ends in mode TiltbackHV
\* and state RunningTiltbackHV if v_in has been above tiltback_hv for more
\* than 500 ms or is above tiltback_hv + 1 V, and in mode TiltbackNone and
\* state Running otherwise.
C16_HighVoltageTiltback ==
  /\ Tick
  /\ obs.entry_state \in RunningStates
  /\ ctl.state \in RunningStates
  /\ obs.entry_mode \notin {CENTERING, REVERSESTOP}
  /\ ctl.abs_duty_cycle <= conf.tiltback_duty
  /\ obs.v_in > conf.tiltback_hv
  => IF ctl.current_time - obs.unmet.hv > 500
        \/ obs.v_in > conf.tiltback_hv + Volt(1)
     THEN /\ ctl.setpointAdjustmentType = TILTBACK_HV
          /\ ctl.state = RUNNING_TILTBACK_HIGH_VOLTAGE
     ELSE /\ ctl.setpointAdjustmentType = TILTBACK_NONE
          /\ ctl.state = RUNNING

\* C17, as stated: a Running iteration entered in Centering mode keeps the
\* mode while the interpolated setpoint differs from its target; once they
\* are equal, with soft start the mode becomes TiltbackNone only when they
\* have been equal for more than START_GRACE_PERIOD_MS, and without soft
\* start it becomes TiltbackNone in the next iteration.
C17_CenteringGrace ==
  Tick /\ obs.entry_state \in RunningStates /\ obs.entry_mode = CENTERING =>
    /\ obs.entry_equal = -1 => ctl.setpointAdjustmentType = CENTERING
    /\ obs.entry_equal # -1 /\ use_soft_start(conf)
         /\ ctl.setpointAdjustmentType # CENTERING =>
           /\ ctl.setpointAdjustmentType = TILTBACK_NONE
           /\ ctl.current_time - obs.entry_equal > START_GRACE_PERIOD_MS
    /\ obs.entry_equal # -1 /\ ~use_soft_start(conf)
         /\ ctl.state \in RunningStates =>
           ctl.setpointAdjustmentType = TILTBACK_NONE

\* C18: a Running iteration entered in a mode other than Centering and
\* ReverseStop that raises no fault while |duty| > tiltback_duty ends in mode
\* TiltbackDuty and state RunningTiltbackDuty with setpoint_target =
\* +tiltback_duty_angle when erpm > 0 and -tiltback_duty_angle otherwise, and
\* moves the interpolated setpoint one tiltback_duty_step_size closer to that
\* target, or onto it when it is less than one step away or already there;
\* so the target is reached within ceil(|target - interpolated| / step)
\* iterations and kept while the condition holds.
C18_DutyTiltback ==
  /\ Tick
  /\ obs.entry_state \in RunningStates
  /\ obs.entry_mode \notin {CENTERING, REVERSESTOP}
  /\ ctl.state \in RunningStates
  /\ ctl.abs_duty_cycle > conf.tiltback_duty
  => /\ ctl.setpointAdjustmentType = TILTBACK_DUTY
     /\ ctl.state = RUNNING_TILTBACK_DUTY
     /\ ctl.setpoint_target =
          IF ctl.erpm > 0 THEN conf.tiltback_duty_angle
          ELSE -conf.tiltback_duty_angle
     /\ fabsf(ctl.setpoint_target - ctl.setpoint_target_interpolated)
          <= fmaxf(0, fabsf(ctl.setpoint_target - obs.entry_interp)
                        - tiltback_duty_step_size(conf))

C18_Witness ==
  /\ Tick
  /\ obs.entry_mode = TILTBACK_DUTY
  /\ ctl.setpointAdjustmentType = TILTBACK_DUTY
  /\ ctl.state = RUNNING_TILTBACK_DUTY
  /\ ctl.abs_duty_cycle > conf.tiltback_duty
  /\ ctl.setpoint_target = conf.tiltback_duty_angle
  /\ ctl.setpoint_target_interpolated = ctl.setpoint_target
  /\ obs.entry_interp = ctl.setpoint_target - tiltback_duty_step_size(conf)

\* C19: check_adcs returns On when both thresholds are 0; with exactly one
\* threshold 0, On iff the ADC of the other input exceeds its threshold and
\* Off otherwise, never Half; with both thresholds above 0, On iff both ADCs
\* exceed their thresholds, Half iff exactly one does, and Off otherwise.
C19_SwitchStateOfAdcs ==
  obs.kind = "adc" =>
    LET over1 == ctl.adc1 > conf.fault_adc1
        over2 == ctl.adc2 > conf.fault_adc2
    IN /\ conf.fault_adc1 = 0 /\ conf.fault_adc2 = 0 => ctl.switch_state = ON
       /\ conf.fault_adc1 # 0 /\ conf.fault_adc2 = 0 =>
            /\ ctl.switch_state = ON <=> over1
            /\ ctl.switch_state = OFF <=> ~over1
       /\ conf.fault_adc1 = 0 /\ conf.fault_adc2 # 0 =>
            /\ ctl.switch_state = ON <=> over2
            /\ ctl.switch_state = OFF <=> ~over2
       /\ conf.fault_adc1 > 0 /\ conf.fault_adc2 > 0 =>
            /\ ctl.switch_state = ON <=> over1 /\ over2
            /\ ctl.switch_state = HALF <=> over1 # over2
            /\ ctl.switch_state = OFF <=> ~over1 /\ ~over2

C19_Witness ==
  /\ obs.kind = "adc"
  /\ conf.fault_adc1 > 0
  /\ conf.fault_adc2 = 0
  /\ ctl.adc1 <= conf.fault_adc1
  /\ ctl.adc2 > 0
  /\ ctl.switch_state = OFF

\* C20, as stated, for the accumulators of the model: the iteration that
\* leaves a fault state for Running through reset_vars leaves the integral,
\* the D-term filter state, pid_value, torquetilt_interpolated and
\* reverse_total_erpm at their values of the first start, whatever they were
\* before the fault.
C20_ResetRestoresAccumulators ==
  Tick /\ obs.entry_state \in FaultStates /\ ctl.state = RUNNING =>
    /\ ctl.integral = InitG(conf).integral
    /\ ctl.d_pt1_lowpass_state = InitG(conf).d_pt1_lowpass_state
    /\ ctl.pid_value = InitG(conf).pid_value
    /\ ctl.torquetilt_interpolated = InitG(conf).torquetilt_interpolated
    /\ ctl.reverse_total_erpm = InitG(conf).reverse_total_erpm

\* C21, as stated: the balance thread is the sole writer of the persistent
\* controller state: no step of app_balance_configure or of the terminal
\* commands changes state, lock_state, is_locked, inactivity_timer or the
\* debug sample counters.
C21_ThreadIsSoleWriter ==
  [][obs'.kind \in {"configure", "terminal_sample"} =>
       /\ ctl'.state = ctl.state
       /\ ctl'.lock_state = ctl.lock_state
       /\ ctl'.is_locked = ctl.is_locked
       /\ ctl'.inactivity_timer = ctl.inactivity_timer
       /\ ctl'.debug_sample_count = ctl.debug_sample_count
       /\ ctl'.debug_sample_index = ctl.debug_sample_index]_vars

RECURSIVE SumSeq(_)
SumSeq(s) == IF s = <<>> THEN 0 ELSE Head(s) + SumSeq(Tail(s))

C23_SaturationIsNoFault ==
  Tick /\ obs.entry_state \in RunningStates /\ DriveCmds # {} =>
    /\ ctl.state \in RunningStates
    /\ ctl.current_limiting =>
         /\ ctl.buzzer
         /\ ctl.pid_value \in {mc_current_max(conf) - Amp(3),
                               mc_current_min(conf) + Amp(3)}
         /\ \A m \in DriveCmds :
              fabsf(m.mA - ctl.pid_value) \in {0, click_current(conf)}
    /\ obs.entry_limiting /\ ~ctl.current_limiting =>
         /\ ~ctl.buzzer
         /\ ctl.pid_value >= mc_current_min(conf)
         /\ ctl.pid_value <= mc_current_max(conf)

C23_Witness ==
  /\ Tick
  /\ obs.entry_state \in RunningStates
  /\ ctl.state \in RunningStates
  /\ DriveCmds # {}
  /\ obs.entry_limiting
  /\ ~ctl.current_limiting
  /\ ~ctl.buzzer

\* C24, as stated: the iteration that completes the lock sequence (lock_state
\* 8 on entry) toggles is_locked, and writes the stored flag only if the NRF
\* channel is 99: with any other channel the stored flag is what it was.
C24_StoredOnlyOnChannel99 ==
  Tick /\ obs.entry_state \in LatchedFaultStates /\ obs.entry_lock_state = 8 =>
    /\ ctl.is_locked = ~obs.entry_locked
    /\ conf.nrf_channel # 99 => ctl.flash_lock = obs.entry_flash

\* C24, amended: the iteration that completes the lock sequence toggles
\* is_locked; a completion that unlocks always stores the new flag, a
\* completion that locks stores it only if the NRF channel is 99 (with any
\* other channel the board is locked until the next completion or restart
\* and the stored flag is unchanged); no other iteration changes is_locked or
\* the stored flag.
C24_LockStoredOnChannel99UnlockAlways ==
  Tick =>
    IF obs.entry_state \in LatchedFaultStates /\ obs.entry_lock_state = 8
    THEN /\ ctl.is_locked = ~obs.entry_locked
         /\ ctl.lock_state = -1
         /\ ctl.flash_lock =
              IF ~ctl.is_locked \/ conf.nrf_channel = 99
              THEN ctl.is_locked ELSE obs.entry_flash
    ELSE /\ ctl.is_locked = obs.entry_locked
         /\ ctl.flash_lock = obs.entry_flash

C24_Witness ==
  /\ Tick
  /\ obs.entry_lock_state = 8
  /\ conf.nrf_channel # 99
  /\ obs.entry_locked
  /\ obs.entry_flash
  /\ ~ctl.is_locked
  /\ ~ctl.flash_lock

C26_FirstFaultWins ==
  obs.kind = "check_faults" =>
    LET e == obs.entry
        ig == obs.ignoreTimers
        since(timer) == ST2MS(e.current_time - timer)
        off == e.switch_state = OFF
        steep(deg) == fabsf(e.pitch_angle) > Deg(deg)
        dueFull ==
          off /\ \/ since(e.fault_switch_timer) > conf.fault_delay_switch_full
                 \/ ig
                 \/ /\ e.abs_erpm < conf.fault_adc_half_erpm * 4
                    /\ since(e.fault_switch_timer) > conf.fault_delay_switch_half
                 \/ e.abs_erpm < conf.fault_adc_half_erpm /\ steep(15)
        reversing == e.setpointAdjustmentType = REVERSESTOP
        dueReverseSwitch == reversing /\ off
        dueReverse ==
          reversing /\ \/ steep(15)
                       \/ steep(10) /\ since(e.reverse_timer) > 500
                       \/ steep(5) /\ since(e.reverse_timer) > 1000
                       \/ e.reverse_total_erpm > reverse_tolerance * 3
        dueHalf ==
          /\ e.switch_state \in {HALF, OFF}
          /\ e.abs_erpm < conf.fault_adc_half_erpm
          /\ (since(e.fault_switch_half_timer) > conf.fault_delay_switch_half \/ ig)
        duePitch ==
          /\ fabsf(e.pitch_angle) > conf.fault_pitch
          /\ (since(e.fault_angle_pitch_timer) > conf.fault_delay_pitch \/ ig)
        dueRoll ==
          /\ fabsf(e.roll_angle) > conf.fault_roll
          /\ (since(e.fault_angle_roll_timer) > conf.fault_delay_roll \/ ig)
        dueDuty ==
          /\ e.abs_duty_cycle > conf.fault_duty
          /\ (since(e.fault_duty_timer) > conf.fault_delay_duty \/ ig)
        rank == IF dueFull THEN 1
                ELSE IF dueReverseSwitch \/ dueReverse THEN 2
                ELSE IF dueHalf THEN 3
                ELSE IF duePitch THEN 4
                ELSE IF dueRoll THEN 5
                ELSE IF dueDuty THEN 6 ELSE 7
        winner == CASE rank = 1 -> FAULT_SWITCH_FULL
                    [] rank = 2 -> IF dueReverseSwitch THEN FAULT_SWITCH_FULL
                                   ELSE FAULT_REVERSE
                    [] rank = 3 -> FAULT_SWITCH_HALF
                    [] rank = 4 -> FAULT_ANGLE_PITCH
                    [] rank = 5 -> FAULT_ANGLE_ROLL
                    [] rank = 6 -> FAULT_DUTY
                    [] OTHER -> e.state
    IN /\ obs.returned = (rank < 7)
       /\ ctl.state = winner
       /\ rank < 2 => ctl.reverse_timer = e.reverse_timer
       /\ rank < 3 => ctl.fault_switch_half_timer = e.fault_switch_half_timer
       /\ rank < 4 => ctl.fault_angle_pitch_timer = e.fault_angle_pitch_timer
       /\ rank < 5 => ctl.fault_angle_roll_timer = e.fault_angle_roll_timer
       /\ rank < 6 => ctl.fault_duty_timer = e.fault_duty_timer

C26_Witness ==
  /\ obs.kind = "check_faults"
  /\ obs.returned /\ ~obs.ignoreTimers
  /\ obs.entry.state = RUNNING
  /\ ctl.state = FAULT_ANGLE_PITCH
  /\ obs.entry.roll_angle = Deg(50) /\ obs.entry.abs_duty_cycle = 95
  /\ obs.entry.fault_angle_roll_timer = FaultsNow - 2000
  /\ obs.entry.fault_duty_timer = FaultsNow - 2000
  /\ ctl.fault_angle_roll_timer = FaultsNow - 2000
  /\ ctl.fault_duty_timer = FaultsNow - 2000

\* C27, as stated: a Running iteration in ReverseStop mode with the switch
\* not released raises FaultReverse when |pitch| > 15 degrees, and one that
\* raises FaultReverse with the reverse total within three tolerances has
\* |pitch| > 15 degrees, or |pitch| > 10 degrees in every iteration of the
\* last 500 ms and more, or |pitch| > 5 degrees in every iteration of the
\* last 1000 ms and more.
C27_ReverseFaultAfterHeldPitch ==
  /\ Tick
  /\ obs.entry_state \in RunningStates
  /\ obs.entry_mode = REVERSESTOP
  /\ ctl.switch_state # OFF
  => /\ PreSteep(ctl, 15) => ctl.state = FAULT_REVERSE
     /\ ctl.state = FAULT_REVERSE /\ ctl.reverse_total_erpm <= reverse_tolerance * 3
        => \/ PreSteep(ctl, 15)
           \/ PreSteep(ctl, 10) /\ ctl.current_time - obs.unmet.steep10 > 500
           \/ PreSteep(ctl, 5) /\ ctl.current_time - obs.unmet.steep5 > 1000

\* C28: a call of calculate_setpoint_target in ReverseStop mode adds erpm to
\* reverse_total_erpm; if the new |total| is at most half the tolerance and
\* erpm >= 0 the mode becomes TiltbackNone with target 0, total 0 and integral
\* 0; otherwise the mode stays ReverseStop with the new total and the
\* integral kept, and the target is 10 degrees per 50000 erpm of |total|
\* beyond the tolerance when there is any, and unchanged when there is none.
C28_ReverseStopAccumulates ==
  obs.kind = "calculate_setpoint_target"
  /\ obs.entry.setpointAdjustmentType = REVERSESTOP
  => LET e == obs.entry
         total == e.reverse_total_erpm + e.erpm
     IN IF fabsf(total) * 2 <= reverse_tolerance /\ e.erpm >= 0
        THEN /\ ctl.setpointAdjustmentType = TILTBACK_NONE
             /\ ctl.setpoint_target = 0
             /\ ctl.reverse_total_erpm = 0
             /\ ctl.integral = 0
        ELSE /\ ctl.setpointAdjustmentType = REVERSESTOP
             /\ ctl.reverse_total_erpm = total
             /\ ctl.integral = e.integral
             /\ ctl.setpoint_target =
                  IF fabsf(total) > reverse_tolerance
                  THEN (Deg(10) * (fabsf(total) - reverse_tolerance)) \div 50000
                  ELSE e.setpoint_target

C28_Witness ==
  /\ obs.kind = "calculate_setpoint_target"
  /\ obs.entry.setpointAdjustmentType = REVERSESTOP
  /\ obs.entry.reverse_total_erpm = -25000 /\ obs.entry.erpm = 20000
  /\ obs.entry.integral = 500 /\ obs.entry.setpoint_target = Deg(3)
  /\ ctl.setpointAdjustmentType = TILTBACK_NONE
  /\ ctl.integral = 0 /\ ctl.setpoint_target = 0

\* C29: a loop iteration that ends in ReverseStop mode without having begun
\* in it began in a running state outside Centering, saw no duty, voltage or
\* temperature tiltback condition, has reverse stop configured and erpm < 0,
\* and leaves reverse_timer at the current time, reverse_total_erpm at 0 and
\* the state Running; without reverse stop configured the mode is never
\* ReverseStop and the state never FaultReverse.
C29_ReverseStopEntry ==
  /\ Tick /\ obs.entry_mode # REVERSESTOP
      /\ ctl.setpointAdjustmentType = REVERSESTOP
     => /\ obs.entry_state \in RunningStates
        /\ obs.entry_mode # CENTERING
        /\ ctl.abs_duty_cycle <= conf.tiltback_duty
        /\ obs.v_in <= conf.tiltback_hv
        /\ obs.v_in >= conf.tiltback_lv
        /\ obs.temp_fet <= mc_max_temp_fet(conf)
        /\ conf.startup_speed10 % 10 \in {1, 3}
        /\ ctl.erpm < 0
        /\ ctl.reverse_timer = ctl.current_time
        /\ ctl.reverse_total_erpm = 0
        /\ ctl.state = RUNNING
  /\ conf.startup_speed10 % 10 \notin {1, 3}
     => /\ ctl.setpointAdjustmentType # REVERSESTOP
        /\ ctl.state # FAULT_REVERSE

C29_Witness ==
  /\ Tick
  /\ obs.entry_state = RUNNING_TILTBACK_DUTY
  /\ obs.entry_mode = TILTBACK_DUTY
  /\ ctl.setpointAdjustmentType = REVERSESTOP
  /\ ctl.state = RUNNING
  /\ ctl.reverse_timer = ctl.current_time

\* C30, as stated: in a call of apply_noseangling with erpm > 0 and
\* torquetilt_interpolated < -1 degree, or erpm < 0 and
\* torquetilt_interpolated > 1 degree, the nose-angle target is 0, whatever
\* the speed and the constant tiltback.
C30_NoseAnglingSuppressed ==
  obs.kind = "apply_noseangling"
  /\ \/ obs.entry.erpm > 0 /\ obs.entry.torquetilt_interpolated < Deg(-1)
     \/ obs.entry.erpm < 0 /\ obs.entry.torquetilt_interpolated > Deg(1)
  => obs.noseangling_target = 0

C32_StaticClimbOnEitherSign ==
  obs.kind = "accel_gap" /\ obs.entry.abs_erpm <= 250
  => IF fabsf(obs.expected_acc) < 1000
     THEN ctl.accel_gap = 0 /\ ~obs.static_climb
     ELSE /\ obs.static_climb = (fabsf(obs.entry.accel_gap) > 1000)
          /\ obs.static_climb =>
               ctl.accel_gap =
                 Quot(900 * obs.entry.accel_gap
                        + 100 * (obs.expected_acc - obs.measured_acc), 1000)

TemperatureTiltback ==
  /\ ctl.abs_duty_cycle <= conf.tiltback_duty
  /\ obs.v_in <= conf.tiltback_hv
  /\ obs.v_in >= conf.tiltback_lv
  /\ obs.temp_fet > mc_max_temp_fet(conf) + 10

C34_CommandWithinLimits ==
  Tick /\ obs.entry_state \in RunningStates
  => \A m \in DriveCmds :
       mc_current_min(conf) <= m.mA /\ m.mA <= mc_current_max(conf)

\* The iteration just finished ran reset_vars on met start conditions: the
\* mode is Centering, the integral 0 and the click counter full, with the
\* board unlocked, both pads pressed and pitch and roll inside the start-up
\* tolerances.
RestartedByReset ==
  /\ ctl.state = RUNNING
  /\ ctl.setpointAdjustmentType = CENTERING
  /\ ctl.integral = 0
  /\ ctl.start_counter_clicks = start_counter_clicks_max(conf)
  /\ start_conditions(ctl, conf)

\* C35: a loop iteration that starts in a fault state other than FaultDuty
\* leaves the state as it was or makes it Running; an iteration that starts
\* outside the running states and ends in one started in a fault state other
\* than FaultDuty and ran reset_vars; no iteration that starts in another
\* state ends in Startup.
C35_FaultLatched ==
  Tick =>
    /\ obs.entry_state \in LatchedFaultStates
         => ctl.state = obs.entry_state \/ ctl.state = RUNNING
    /\ obs.entry_state \notin RunningStates /\ ctl.state \in RunningStates
         => obs.entry_state \in LatchedFaultStates /\ RestartedByReset
    /\ ctl.state = STARTUP => obs.entry_state = STARTUP

C35_Witness ==
  /\ Tick
  /\ obs.entry_state = FAULT_ANGLE_PITCH
  /\ ctl.state = RUNNING
  /\ RestartedByReset

\* The tiltback modes and the targets they set.
TiltbackModes == {TILTBACK_DUTY, TILTBACK_HV, TILTBACK_LV}
TiltbackAngles ==
  { s * a : s \in {-1, 1},
            a \in {conf.tiltback_duty_angle, conf.tiltback_hv_angle,
                   conf.tiltback_lv_angle} }

\* C36: a call of calculate_setpoint_target in ReverseStop mode leaves the
\* state as it was, ends in ReverseStop or TiltbackNone, and leaves in
\* setpoint_target the old target, 0 or the ReverseStop ramp, never a
\* tiltback angle of the configuration, whatever the duty cycle, the input
\* voltage and the FET temperature; a call in Centering mode leaves the
\* target as it was, ends in Centering or TiltbackNone and leaves the state
\* as it was or Running.
C36_ReverseStopMasksTiltback ==
  obs.kind = "calculate_setpoint_target" =>
    LET e == obs.entry
    IN /\ e.setpointAdjustmentType = REVERSESTOP
            => /\ ctl.state = e.state
               /\ ctl.setpointAdjustmentType \in {REVERSESTOP, TILTBACK_NONE}
               /\ ctl.setpoint_target \notin TiltbackAngles
       /\ e.setpointAdjustmentType = CENTERING
            => /\ ctl.state \in {e.state, RUNNING}
               /\ ctl.setpointAdjustmentType \in {CENTERING, TILTBACK_NONE}
               /\ ctl.setpoint_target = e.setpoint_target

C36_Witness ==
  /\ obs.kind = "calculate_setpoint_target"
  /\ obs.entry.setpointAdjustmentType = REVERSESTOP
  /\ obs.entry.state = RUNNING
  /\ obs.entry.abs_duty_cycle > conf.tiltback_duty
  /\ obs.v_in > conf.tiltback_hv
  /\ obs.temp_fet > mc_max_temp_fet(conf) + 10
  /\ ctl.state = RUNNING
  /\ ctl.setpointAdjustmentType = REVERSESTOP

\* C37: a pass through the setpoint stage of a running iteration in Centering
\* or ReverseStop mode leaves the setpoint equal to the interpolated target
\* and leaves noseangling_interpolated, torquetilt_target,
\* torquetilt_interpolated, accel_gap, turntilt_target, turntilt_interpolated
\* and cutback as they were.
C37_NoTiltInCenteringOrReverseStop ==
  obs.kind = "setpoint"
  /\ obs.entry.setpointAdjustmentType \in {CENTERING, REVERSESTOP}
  => /\ ctl.setpoint = ctl.setpoint_target_interpolated
     /\ ctl.setpoint_target_interpolated = obs.entry.setpoint_target_interpolated
     /\ Tilts(ctl) = Tilts(obs.entry)

C37_Witness ==
  /\ obs.kind = "setpoint"
  /\ obs.entry.setpointAdjustmentType = REVERSESTOP
  /\ conf.torquetilt_strength # 0
  /\ Tilts(obs.entry) = TiltsAway
  /\ obs.entry.erpm = 3000
  /\ ctl.setpoint = Deg(2)
  /\ Tilts(ctl) = TiltsAway

\* C38, as stated: a loop iteration that starts in a running state and raises
\* no fault commands one drive current and nothing else, one that raises a
\* fault commands nothing; an iteration that starts in a fault state commands
\* the brake current once, or nothing when it resets to Running.
C38_OneCommandPerTick ==
  Tick =>
    /\ obs.entry_state \in RunningStates /\ ctl.state \in RunningStates
         => Len(ctl.motor_out) = 1 /\ ctl.motor_out[1].cmd = "current"
    /\ obs.entry_state \in RunningStates /\ ctl.state \in FaultStates
         => ctl.motor_out = <<>>
    /\ obs.entry_state \in FaultStates
         => IF ctl.state = RUNNING THEN ctl.motor_out = <<>>
            ELSE ctl.motor_out = <<BrakeCmd(brake_current(conf))>>

\* C38, amended: a loop iteration that starts in a running state and raises
\* no fault commands one drive current and nothing else, one that raises a
\* fault commands nothing; an iteration that starts in a fault state other
\* than FaultDuty commands nothing when it resets to Running and otherwise
\* calls brake(); an iteration that starts in FaultDuty calls brake() whether
\* or not it raises another fault; brake() commands the brake current once,
\* or nothing once its timeout has lapsed. No iteration that starts in a
\* running or fault state commands the motor more than once.
C38_OneCommandOrBrakeTimeout ==
  Tick =>
    /\ obs.entry_state \in RunningStates /\ ctl.state \in RunningStates
         => Len(ctl.motor_out) = 1 /\ ctl.motor_out[1].cmd = "current"
    /\ obs.entry_state \in RunningStates /\ ctl.state \in FaultStates
         => ctl.motor_out = <<>>
    /\ obs.entry_state \in LatchedFaultStates
         => IF ctl.state = RUNNING THEN ctl.motor_out = <<>>
            ELSE BrakedOrTimedOut
    /\ obs.entry_state = FAULT_DUTY
         => ctl.state \in FaultStates /\ BrakedOrTimedOut
    /\ obs.entry_state \in RunningStates \cup FaultStates
         => Len(ctl.motor_out) <= 1

C38_Witness ==
  /\ Tick
  /\ obs.entry_state = FAULT_DUTY
  /\ ctl.state \in LatchedFaultStates
  /\ ctl.motor_out = <<BrakeCmd(brake_current(conf))>>

\* C39: lock_state is always one of -1..8; a loop iteration that starts in a
\* running state leaves it at -1; one that starts in Startup or FaultDuty
\* leaves lock_state and is_locked alone; one that starts in another fault
\* state changes lock_state only when 50 ms or more have passed since the
\* last change made by check_lock (lock_timer holds the time of each), and
\* then to the next step or to -1; and
\* is_locked changes only in such an iteration that found lock_state at 8.
C39_LockStepsOnlyInFault ==
  /\ ctl.lock_state \in -1..8
  /\ Tick =>
       /\ obs.entry_state \in RunningStates =>
            ctl.lock_state = -1 /\ ctl.is_locked = obs.entry_locked
       /\ obs.entry_state \in {STARTUP, FAULT_DUTY} =>
            /\ ctl.lock_state = obs.entry_lock_state
            /\ ctl.is_locked = obs.entry_locked
       /\ obs.entry_state \in LatchedFaultStates
          /\ ctl.lock_state # obs.entry_lock_state =>
            /\ ctl.lock_timer - obs.entry_lock_timer >= 50
            /\ ctl.lock_state \in {obs.entry_lock_state + 1, -1}
       /\ ctl.is_locked # obs.entry_locked =>
            /\ obs.entry_state \in LatchedFaultStates
            /\ obs.entry_lock_state = 8
            /\ ctl.lock_timer - obs.entry_lock_timer >= 50

C39_Witness ==
  /\ Tick
  /\ obs.entry_state \in LatchedFaultStates
  /\ obs.entry_lock_state = 8
  /\ ctl.lock_timer - obs.entry_lock_timer = 50
  /\ ctl.is_locked # obs.entry_locked
  /\ ctl.lock_state = -1

\* C40, as stated: once app_balance_stop has returned, none of the terminal
\* callbacks app_balance_start registers is registered.
C40_CallbacksUnregistered ==
  pc = "stopped" /\ obs.kind = "stop" => ctl.terminal_callbacks = {}

====
